---- MODULE Spec2Model ----
(***************************************************************************)
(* Call protocol of the rocSOLVER LU family: getrf, getrs_strided_batched, *)
(* getri, getri_outofplace_strided_batched and gesv_outofplace.            *)
(*                                                                         *)
(* One behaviour is one call of one public entry point on one handle,      *)
(* followed by the device draining the stream the call issued work on.     *)
(* The host side of a call is synchronous and is one action; each kernel   *)
(* the device runs is one action.                                          *)
(*                                                                         *)
(* Matrix contents are symbolic terms (sequences of strings): the value a  *)
(* kernel writes is the term built from the values it read, so data flow   *)
(* between kernels is exact while the arithmetic of the BLAS kernels is    *)
(* left uninterpreted.                                                     *)
(***************************************************************************)
EXTENDS Integers, Sequences, FiniteSets, TLC

\* ------------------------------------------------------------------ bounds
\* batch_count is drawn from -1..MaxBatch; device buffers hold MaxBatch instances
MaxBatch == 2

\* dimensions a caller passes: negative, empty, smallest
DimVals == {-1, 0, 1}
\* leading dimensions a caller passes: too small for a matrix, large enough
LdVals == {0, 65536}
\* dimensions passed to gesv_outofplace, whose validation multiplies them:
\* also 2^16, whose square does not fit a 32-bit rocblas_int
NVals == DimVals \cup {65536}
\* dimensions passed to getrf: also a matrix of more than one column
GetrfDims == DimVals \cup {2}
BatchVals == -1 .. MaxBatch

Instances == 1 .. MaxBatch

\* ---------------------------------------------------------------- statuses
rocblas_status_success == "success"
rocblas_status_invalid_handle == "invalid_handle"
rocblas_status_not_implemented == "not_implemented"
rocblas_status_invalid_pointer == "invalid_pointer"
rocblas_status_invalid_size == "invalid_size"
rocblas_status_memory_error == "memory_error"
rocblas_status_invalid_value == "invalid_value"
rocblas_status_continue == "continue"
rocblas_status_size_increased == "size_increased"
rocblas_status_size_unchanged == "size_unchanged"

rocblas_operation_none == "none"
rocblas_operation_transpose == "transpose"
rocblas_operation_conjugate_transpose == "conjugate_transpose"

Max(a, b) == IF a >= b THEN a ELSE b

RECURSIVE SumSeq(_)
SumSeq(s) == IF s = <<>> THEN 0 ELSE Head(s) + SumSeq(Tail(s))

\* ------------------------------------------------- 32-bit integer product
\* Byte i of a non-negative 32-bit value.
Limb(x, i) == (x \div (256 ^ i)) % 256

\* Column k of the schoolbook product of two 4-byte values.
RECURSIVE ColumnSum(_, _, _, _)
ColumnSum(a, b, k, i) ==
    IF i > k THEN 0
    ELSE (IF i <= 3 /\ k - i <= 3 THEN Limb(a, i) * Limb(b, k - i) ELSE 0)
         + ColumnSum(a, b, k, i + 1)

\* Bytes k..7 of the exact 64-bit product a * b, given the carry into byte k.
RECURSIVE ProductLimbs(_, _, _, _)
ProductLimbs(a, b, k, carry) ==
    IF k > 7 THEN <<>>
    ELSE LET c == ColumnSum(a, b, k, 0) + carry
         IN  <<c % 256>> \o ProductLimbs(a, b, k + 1, c \div 256)

\* The product of two non-negative rocblas_int does not fit in 31 bits.
MulOverflows(a, b) ==
    LET p == ProductLimbs(a, b, 0, 0)
    IN  p[4] >= 128 \/ \E k \in 5 .. 8 : p[k] # 0

\* The low 32 bits of the product are not all zero.
MulWrappedNonZero(a, b) ==
    LET p == ProductLimbs(a, b, 0, 0)
    IN  \E k \in 1 .. 4 : p[k] # 0

\* Truth values `nrhs * n` can take as a condition.  Signed overflow is
\* undefined: the build either wraps the product to 32 bits or folds the test
\* to (nrhs != 0 && n != 0) on the assumption that no overflow happens.
IntProductTruth(a, b) ==
    IF MulOverflows(a, b)
    THEN {MulWrappedNonZero(a, b), a # 0 /\ b # 0}
    ELSE {MulWrappedNonZero(a, b)}

\* ------------------------------------------------------------------ handle
\* kind: "null" (no handle), "query" (device-memory-size query in progress),
\* "exec" (normal execution).  cap: workspace the allocator can still hand
\* out.  qsize: the largest size reported during the query.
HandleStates ==
    {[kind |-> "null", cap |-> 0, qsize |-> 0],
     [kind |-> "query", cap |-> 0, qsize |-> 0],
     [kind |-> "exec", cap |-> 0, qsize |-> 0],
     [kind |-> "exec", cap |-> 1000000, qsize |-> 0]}

rocblas_is_device_memory_size_query(h) == h.kind = "query"

\* Reports the sizes to the handle; the status says whether the recorded
\* optimum grew.
rocblas_set_optimal_device_memory_size(h, sizes) ==
    IF SumSeq(sizes) > h.qsize
    THEN rocblas_status_size_increased
    ELSE rocblas_status_size_unchanged

\* rocblas_device_malloc: the request succeeds when it fits.
rocblas_device_malloc(h, sizes) == SumSeq(sizes) <= h.cap

\* ------------------------------------------------------ workspace planners
\* A workspace descriptor: the nine sizes in the order they are passed to the
\* allocator, and the optimal-memory flag.
Descriptor(scalars, w1, w2, w3, w4, pivotval, pivotidx, iipiv, iinfo, optim) ==
    [size_scalars |-> scalars, size_work1 |-> w1, size_work2 |-> w2,
     size_work3 |-> w3, size_work4 |-> w4, size_pivotval |-> pivotval,
     size_pivotidx |-> pivotidx, size_iipiv |-> iipiv, size_iinfo |-> iinfo,
     optim_mem |-> optim]

NineSizes(d) ==
    <<d.size_scalars, d.size_work1, d.size_work2, d.size_work3, d.size_work4,
      d.size_pivotval, d.size_pivotidx, d.size_iipiv, d.size_iinfo>>

FourSizes(d) == <<d.size_work1, d.size_work2, d.size_work3, d.size_work4>>

\* Planner of the factorizer (sizes in elements).  Quick return: an empty
\* problem needs no workspace.  Otherwise three scalar constants, scratch for
\* the triangular solves and the trailing update of a panel, the pivot search
\* buffers (pivoted form only) and the per-instance internal pivot and info
\* arrays.
rocsolver_getrf_getMemorySize(m, n, pivot, batch_count) ==
    IF m = 0 \/ n = 0 \/ batch_count = 0
    THEN Descriptor(0, 0, 0, 0, 0, 0, 0, 0, 0, TRUE)
    ELSE Descriptor(3, 2 * batch_count, batch_count, 0, 0,
                    IF pivot THEN batch_count ELSE 0,
                    IF pivot THEN batch_count ELSE 0,
                    IF pivot THEN batch_count ELSE 0,
                    batch_count, TRUE)

\* Planner of the solver: scratch for the two triangular solves.
rocsolver_getrs_getMemorySize(trans, n, nrhs, batch_count) ==
    IF n = 0 \/ nrhs = 0 \/ batch_count = 0
    THEN Descriptor(0, 0, 0, 0, 0, 0, 0, 0, 0, TRUE)
    ELSE Descriptor(0, batch_count, 2 * batch_count, batch_count, batch_count,
                    0, 0, 0, 0, trans = rocblas_operation_none)

\* Planner of the in-place inversion: the solver's scratch plus the copy
\* buffer and the array of pointers, carried in the pivotval/pivotidx slots.
rocsolver_getri_getMemorySize(n, batch_count) ==
    IF n = 0 \/ batch_count = 0
    THEN Descriptor(0, 0, 0, 0, 0, 0, 0, 0, 0, TRUE)
    ELSE Descriptor(0, batch_count, 2 * batch_count, batch_count, batch_count,
                    batch_count, 0, 0, 0, TRUE)

\* Planner of the out-of-place inversion: what the solver needs for n
\* right-hand sides.
rocsolver_getri_outofplace_getMemorySize(n, batch_count) ==
    rocsolver_getrs_getMemorySize(rocblas_operation_none, n, n, batch_count)

\* The sizes without the quick return: the sub-planners consulted also for
\* an empty problem.
gesv_sizes_no_quick_return(n, nrhs, batch_count, f, s) ==
    Descriptor(f.size_scalars,
               Max(f.size_work1, s.size_work1),
               Max(f.size_work2, s.size_work2),
               Max(f.size_work3, s.size_work3),
               Max(f.size_work4, s.size_work4),
               f.size_pivotval, f.size_pivotidx, f.size_iipiv, f.size_iinfo,
               f.optim_mem /\ s.optim_mem)

\* The sizes with optimal memory reported as soon as one sub-planner does.
gesv_sizes_optim_either(n, nrhs, batch_count, f, s) ==
    IF n = 0 \/ nrhs = 0 \/ batch_count = 0
    THEN Descriptor(0, 0, 0, 0, 0, 0, 0, 0, 0, TRUE)
    ELSE Descriptor(f.size_scalars,
                    Max(f.size_work1, s.size_work1),
                    Max(f.size_work2, s.size_work2),
                    Max(f.size_work3, s.size_work3),
                    Max(f.size_work4, s.size_work4),
                    f.size_pivotval, f.size_pivotidx, f.size_iipiv,
                    f.size_iinfo,
                    f.optim_mem \/ s.optim_mem)

\* The sizes of the factorizer taken alone, those of the solver dropped.
gesv_sizes_getrf_only(n, nrhs, batch_count, f, s) ==
    IF n = 0 \/ nrhs = 0 \/ batch_count = 0
    THEN Descriptor(0, 0, 0, 0, 0, 0, 0, 0, 0, TRUE)
    ELSE f

\* The body of the planner of gesv_outofplace, given what the planner of the
\* factorizer (f) and of the solver (s) answer when they are consulted.
gesv_outofplace_sizes(n, nrhs, batch_count, f, s) ==
    IF n = 0 \/ nrhs = 0 \/ batch_count = 0
    THEN Descriptor(0, 0, 0, 0, 0, 0, 0, 0, 0, TRUE)
    ELSE Descriptor(f.size_scalars,
                    Max(f.size_work1, s.size_work1),
                    Max(f.size_work2, s.size_work2),
                    Max(f.size_work3, s.size_work3),
                    Max(f.size_work4, s.size_work4),
                    f.size_pivotval, f.size_pivotidx, f.size_iipiv,
                    f.size_iinfo,
                    f.optim_mem /\ s.optim_mem)

rocsolver_gesv_outofplace_getMemorySize(n, nrhs, batch_count) ==
    gesv_outofplace_sizes(
        n, nrhs, batch_count,
        rocsolver_getrf_getMemorySize(n, n, TRUE, batch_count),
        rocsolver_getrs_getMemorySize(rocblas_operation_none, n, nrhs,
                                      batch_count))

\* -------------------------------------------------------- argument checks
\* Pointers are modelled by whether they are non-null (TRUE = non-null).
\* `prod` is the truth value the build gives the condition `nrhs * n`.
\* The pointer checks made before the size checks.
gesv_argCheck_pointers_first(h, n, nrhs, lda, ldb, ldx, A, B, X, ipiv, info, batch_count, prod) ==
    IF /\ ~rocblas_is_device_memory_size_query(h)
       /\ \/ (n # 0 /\ ~A)
          \/ (n # 0 /\ ~ipiv)
          \/ (prod /\ ~B)
          \/ (prod /\ ~X)
          \/ (batch_count # 0 /\ ~info)
    THEN rocblas_status_invalid_pointer
    ELSE IF n < 0 \/ nrhs < 0 \/ lda < n \/ ldb < n \/ ldx < n \/ batch_count < 0
    THEN rocblas_status_invalid_size
    ELSE rocblas_status_continue

\* The pointer checks made also during a memory-size query.
gesv_argCheck_no_query_skip(h, n, nrhs, lda, ldb, ldx, A, B, X, ipiv, info, batch_count, prod) ==
    IF n < 0 \/ nrhs < 0 \/ lda < n \/ ldb < n \/ ldx < n \/ batch_count < 0
    THEN rocblas_status_invalid_size
    ELSE IF \/ (n # 0 /\ ~A)
            \/ (n # 0 /\ ~ipiv)
            \/ (prod /\ ~B)
            \/ (prod /\ ~X)
            \/ (batch_count # 0 /\ ~info)
    THEN rocblas_status_invalid_pointer
    ELSE rocblas_status_continue

rocsolver_gesv_outofplace_argCheck(h, n, nrhs, lda, ldb, ldx, A, B, X, ipiv, info, batch_count, prod) ==
    IF n < 0 \/ nrhs < 0 \/ lda < n \/ ldb < n \/ ldx < n \/ batch_count < 0
    THEN rocblas_status_invalid_size
    ELSE IF rocblas_is_device_memory_size_query(h)
    THEN rocblas_status_continue
    ELSE IF \/ (n # 0 /\ ~A)
            \/ (n # 0 /\ ~ipiv)
            \/ (prod /\ ~B)
            \/ (prod /\ ~X)
            \/ (batch_count # 0 /\ ~info)
    THEN rocblas_status_invalid_pointer
    ELSE rocblas_status_continue

\* Validation of the factorizer: sizes, then (outside a size query) the
\* pointers the problem needs; ipiv is needed by the pivoted form only.
rocsolver_getf2_getrf_argCheck(h, m, n, lda, A, ipiv, info, pivot, batch_count) ==
    IF m < 0 \/ n < 0 \/ lda < m \/ batch_count < 0
    THEN rocblas_status_invalid_size
    ELSE IF rocblas_is_device_memory_size_query(h)
    THEN rocblas_status_continue
    ELSE IF \/ (m # 0 /\ n # 0 /\ ~A)
            \/ (m # 0 /\ n # 0 /\ pivot /\ ~ipiv)
            \/ (batch_count # 0 /\ ~info)
    THEN rocblas_status_invalid_pointer
    ELSE rocblas_status_continue

\* Validation of the solver: unsupported operation first, then sizes, then
\* pointers.
rocsolver_getrs_argCheck(h, trans, n, nrhs, lda, ldb, A, B, ipiv, batch_count) ==
    IF trans \notin {rocblas_operation_none, rocblas_operation_transpose,
                     rocblas_operation_conjugate_transpose}
    THEN rocblas_status_invalid_value
    ELSE IF n < 0 \/ nrhs < 0 \/ lda < n \/ ldb < n \/ batch_count < 0
    THEN rocblas_status_invalid_size
    ELSE IF rocblas_is_device_memory_size_query(h)
    THEN rocblas_status_continue
    ELSE IF \/ (n # 0 /\ ~A)
            \/ (n # 0 /\ ~ipiv)
            \/ (n # 0 /\ nrhs # 0 /\ ~B)
    THEN rocblas_status_invalid_pointer
    ELSE rocblas_status_continue

\* Validation of the in-place inversion.
rocsolver_getri_argCheck(h, n, lda, A, ipiv, info, pivot, batch_count) ==
    IF n < 0 \/ lda < n \/ batch_count < 0
    THEN rocblas_status_invalid_size
    ELSE IF rocblas_is_device_memory_size_query(h)
    THEN rocblas_status_continue
    ELSE IF \/ (n # 0 /\ ~A)
            \/ (n # 0 /\ pivot /\ ~ipiv)
            \/ (batch_count # 0 /\ ~info)
    THEN rocblas_status_invalid_pointer
    ELSE rocblas_status_continue

\* Validation of the out-of-place inversion.
rocsolver_getri_outofplace_argCheck(h, n, lda, ldc, A, C, ipiv, info, pivot, batch_count) ==
    IF n < 0 \/ lda < n \/ ldc < n \/ batch_count < 0
    THEN rocblas_status_invalid_size
    ELSE IF rocblas_is_device_memory_size_query(h)
    THEN rocblas_status_continue
    ELSE IF \/ (n # 0 /\ ~A)
            \/ (n # 0 /\ ~C)
            \/ (n # 0 /\ pivot /\ ~ipiv)
            \/ (batch_count # 0 /\ ~info)
    THEN rocblas_status_invalid_pointer
    ELSE rocblas_status_continue

\* ------------------------------------------------------------ device work
\* A kernel on the stream: what it is, over how many instances, and the
\* buffers it is bound to.
Kernel(k, bc, opt, src, dst) ==
    [k |-> k, bc |-> bc, opt |-> opt, src |-> src, dst |-> dst]

reset_info(batch_count) == Kernel("reset_info", batch_count, "", "", "info")
copy_mat(batch_count, src, dst) == Kernel("copy_mat", batch_count, "", src, dst)
init_scalars == Kernel("init_scalars", 0, "", "", "scalars")

\* What a template hands back: its status and the kernels it issued, in
\* issue order.
Issued(status, ops) == [status |-> status, ops |-> ops]

\* The factorizer.  No work for an empty batch; info is reset for every
\* instance by a pre-pass of its own, also when the matrix is empty; the
\* factorization that follows records the first zero pivot of an instance in
\* an info that is still 0.
rocsolver_getrf_template(m, n, batch_count, pivot) ==
    IF batch_count = 0 THEN Issued(rocblas_status_success, <<>>)
    ELSE IF m = 0 \/ n = 0
    THEN Issued(rocblas_status_success, <<reset_info(batch_count)>>)
    ELSE Issued(rocblas_status_success,
                <<reset_info(batch_count),
                  Kernel("getrf", batch_count,
                         IF pivot THEN "pivot" ELSE "npvt", "A", "A")>>)

\* The solver, in place on the right-hand side buffer it is given.
rocsolver_getrs_template(trans, n, nrhs, batch_count, rhs) ==
    IF n = 0 \/ nrhs = 0 \/ batch_count = 0
    THEN Issued(rocblas_status_success, <<>>)
    ELSE Issued(rocblas_status_success,
                <<Kernel("getrs", batch_count, trans, "A", rhs)>>)

\* In-place inversion.  The impl hands the template the scratch of the
\* triangular solve and inversion, the copy buffer and the array of pointers:
\* none of the factorizer's buffers (scalars, pivot scratch), so the
\* factorizer is not run and the inverse is computed from the LU factors
\* (and, pivoted, the ipiv) the caller left in A.
rocsolver_getri_template(n, batch_count, pivot) ==
    IF batch_count = 0 THEN Issued(rocblas_status_success, <<>>)
    ELSE IF n = 0
    THEN Issued(rocblas_status_success, <<reset_info(batch_count)>>)
    ELSE Issued(rocblas_status_success,
                <<reset_info(batch_count),
                  Kernel("getri", batch_count,
                         IF pivot THEN "pivot" ELSE "npvt", "A", "A")>>)

\* Out-of-place inversion, given the solver's four work buffers only: the
\* inverse is computed from the factors in A and written to C.
rocsolver_getri_outofplace_template(n, batch_count, pivot) ==
    IF batch_count = 0 THEN Issued(rocblas_status_success, <<>>)
    ELSE IF n = 0
    THEN Issued(rocblas_status_success, <<reset_info(batch_count)>>)
    ELSE Issued(rocblas_status_success,
                <<reset_info(batch_count),
                  Kernel("getri", batch_count,
                         IF pivot THEN "pivot" ELSE "npvt", "A", "C")>>)

\* The solve done in place on the caller's B, without the copy to X.
gesv_template_solve_in_B(n, nrhs, batch_count) ==
    IF batch_count = 0 THEN Issued(rocblas_status_success, <<>>)
    ELSE IF n = 0 \/ nrhs = 0
    THEN Issued(rocblas_status_success, <<reset_info(batch_count)>>)
    ELSE Issued(rocblas_status_success,
                <<reset_info(batch_count)>>
                \o rocsolver_getrf_template(n, n, batch_count, TRUE).ops
                \o rocsolver_getrs_template(rocblas_operation_none, n, nrhs,
                                            batch_count, "B").ops)

\* The copy of B issued after the solve instead of before it.
gesv_template_copy_last(n, nrhs, batch_count) ==
    IF batch_count = 0 THEN Issued(rocblas_status_success, <<>>)
    ELSE IF n = 0 \/ nrhs = 0
    THEN Issued(rocblas_status_success, <<reset_info(batch_count)>>)
    ELSE Issued(rocblas_status_success,
                <<reset_info(batch_count)>>
                \o rocsolver_getrf_template(n, n, batch_count, TRUE).ops
                \o rocsolver_getrs_template(rocblas_operation_none, n, nrhs,
                                            batch_count, "X").ops
                \o <<copy_mat(batch_count, "B", "X")>>)

\* The body of the gesv_outofplace template, given what the factorizer (f)
\* and the solver (s) hand back when they are invoked: their kernels go on the
\* stream, their statuses are not looked at.
gesv_outofplace_steps(n, nrhs, batch_count, f, s) ==
    IF batch_count = 0 THEN Issued(rocblas_status_success, <<>>)
    ELSE IF n = 0 \/ nrhs = 0
    THEN Issued(rocblas_status_success, <<reset_info(batch_count)>>)
    ELSE Issued(rocblas_status_success,
                <<reset_info(batch_count)>>
                \o f.ops
                \o <<copy_mat(batch_count, "B", "X")>>
                \o s.ops)

\* No return for an empty right-hand side: only n = 0 is looked at.
gesv_template_no_nrhs_return(n, nrhs, batch_count) ==
    IF batch_count = 0 THEN Issued(rocblas_status_success, <<>>)
    ELSE IF n = 0
    THEN Issued(rocblas_status_success, <<reset_info(batch_count)>>)
    ELSE Issued(rocblas_status_success,
                <<reset_info(batch_count)>>
                \o rocsolver_getrf_template(n, n, batch_count, TRUE).ops
                \o <<copy_mat(batch_count, "B", "X")>>
                \o rocsolver_getrs_template(rocblas_operation_none, n, nrhs,
                                            batch_count, "X").ops)

\* The info reset launched before the batch count is looked at.
gesv_template_reset_before_batch_check(n, nrhs, batch_count) ==
    IF batch_count = 0 \/ n = 0 \/ nrhs = 0
    THEN Issued(rocblas_status_success, <<reset_info(batch_count)>>)
    ELSE Issued(rocblas_status_success,
                <<reset_info(batch_count)>>
                \o rocsolver_getrf_template(n, n, batch_count, TRUE).ops
                \o <<copy_mat(batch_count, "B", "X")>>
                \o rocsolver_getrs_template(rocblas_operation_none, n, nrhs,
                                            batch_count, "X").ops)

\* The info reset launched after the return for an empty problem.
gesv_template_reset_after_return(n, nrhs, batch_count) ==
    IF batch_count = 0 \/ n = 0 \/ nrhs = 0
    THEN Issued(rocblas_status_success, <<>>)
    ELSE Issued(rocblas_status_success,
                <<reset_info(batch_count)>>
                \o rocsolver_getrf_template(n, n, batch_count, TRUE).ops
                \o <<copy_mat(batch_count, "B", "X")>>
                \o rocsolver_getrs_template(rocblas_operation_none, n, nrhs,
                                            batch_count, "X").ops)

\* The copy of B to X launched over the first instance only.
gesv_template_copy_one_instance(n, nrhs, batch_count) ==
    IF batch_count = 0 THEN Issued(rocblas_status_success, <<>>)
    ELSE IF n = 0 \/ nrhs = 0
    THEN Issued(rocblas_status_success, <<reset_info(batch_count)>>)
    ELSE Issued(rocblas_status_success,
                <<reset_info(batch_count)>>
                \o rocsolver_getrf_template(n, n, batch_count, TRUE).ops
                \o <<copy_mat(1, "B", "X")>>
                \o rocsolver_getrs_template(rocblas_operation_none, n, nrhs,
                                            batch_count, "X").ops)

\* The solve launched over the first instance only.
gesv_template_solve_one_instance(n, nrhs, batch_count) ==
    IF batch_count = 0 THEN Issued(rocblas_status_success, <<>>)
    ELSE IF n = 0 \/ nrhs = 0
    THEN Issued(rocblas_status_success, <<reset_info(batch_count)>>)
    ELSE Issued(rocblas_status_success,
                <<reset_info(batch_count)>>
                \o rocsolver_getrf_template(n, n, batch_count, TRUE).ops
                \o <<copy_mat(batch_count, "B", "X")>>
                \o rocsolver_getrs_template(rocblas_operation_none, n, nrhs,
                                            1, "X").ops)

\* The copy and the solve left out: the call stops after the factorization.
gesv_template_factor_only(n, nrhs, batch_count) ==
    IF batch_count = 0 THEN Issued(rocblas_status_success, <<>>)
    ELSE IF n = 0 \/ nrhs = 0
    THEN Issued(rocblas_status_success, <<reset_info(batch_count)>>)
    ELSE Issued(rocblas_status_success,
                <<reset_info(batch_count)>>
                \o rocsolver_getrf_template(n, n, batch_count, TRUE).ops)

rocsolver_gesv_outofplace_template(n, nrhs, batch_count) ==
    gesv_outofplace_steps(
        n, nrhs, batch_count,
        rocsolver_getrf_template(n, n, batch_count, TRUE),
        rocsolver_getrs_template(rocblas_operation_none, n, nrhs, batch_count,
                                 "X"))

\* ------------------------------------------------------------ entry points
\* What one call did on the host: the status it returned, the steps it went
\* through in order, the sizes it reported to the handle, the sizes it asked
\* the allocator for, and the kernels it issued.
Return(status, log, reported, requested, ops) ==
    [status |-> status, log |-> log, reported |-> reported,
     requested |-> requested, ops |-> ops]

\* The arguments validated before the handle is looked at.
getrf_impl_args_before_handle(h, m, n, A, lda, ipiv, info, pivot) ==
    LET st == rocsolver_getf2_getrf_argCheck(h, m, n, lda, A, ipiv, info, pivot, 1)
    IN
    IF st # rocblas_status_continue
    THEN Return(st, <<"argCheck">>, <<>>, <<>>, <<>>)
    ELSE IF h.kind = "null"
    THEN Return(rocblas_status_invalid_handle, <<"argCheck", "handle">>,
                <<>>, <<>>, <<>>)
    ELSE
    LET batch_count == 1
        d == rocsolver_getrf_getMemorySize(m, n, pivot, batch_count)
        sizes == NineSizes(d)
    IN
    IF rocblas_is_device_memory_size_query(h)
    THEN Return(rocblas_set_optimal_device_memory_size(h, sizes),
                <<"argCheck", "handle", "getMemorySize", "set_optimal">>,
                sizes, <<>>, <<>>)
    ELSE IF ~rocblas_device_malloc(h, sizes)
    THEN Return(rocblas_status_memory_error,
                <<"argCheck", "handle", "getMemorySize", "malloc">>,
                <<>>, sizes, <<>>)
    ELSE
    LET t == rocsolver_getrf_template(m, n, batch_count, pivot)
    IN  Return(t.status,
               <<"argCheck", "handle", "getMemorySize", "malloc", "template">>,
               <<>>, sizes,
               (IF d.size_scalars > 0 THEN <<init_scalars>> ELSE <<>>) \o t.ops)

\* The size query answered with the status of the argument validation.
getrf_impl_query_returns_st(h, m, n, A, lda, ipiv, info, pivot) ==
    IF h.kind = "null"
    THEN Return(rocblas_status_invalid_handle, <<"handle">>, <<>>, <<>>, <<>>)
    ELSE
    LET st == rocsolver_getf2_getrf_argCheck(h, m, n, lda, A, ipiv, info, pivot, 1)
    IN
    IF st # rocblas_status_continue
    THEN Return(st, <<"handle", "argCheck">>, <<>>, <<>>, <<>>)
    ELSE
    LET batch_count == 1
        d == rocsolver_getrf_getMemorySize(m, n, pivot, batch_count)
        sizes == NineSizes(d)
    IN
    IF rocblas_is_device_memory_size_query(h)
    THEN Return(st, <<"handle", "argCheck", "getMemorySize", "set_optimal">>,
                sizes, <<>>, <<>>)
    ELSE IF ~rocblas_device_malloc(h, sizes)
    THEN Return(rocblas_status_memory_error,
                <<"handle", "argCheck", "getMemorySize", "malloc">>,
                <<>>, sizes, <<>>)
    ELSE
    LET t == rocsolver_getrf_template(m, n, batch_count, pivot)
    IN  Return(t.status,
               <<"handle", "argCheck", "getMemorySize", "malloc", "template">>,
               <<>>, sizes,
               (IF d.size_scalars > 0 THEN <<init_scalars>> ELSE <<>>) \o t.ops)

\* The batch of the single-matrix form set to 0 instead of 1.
getrf_impl_empty_batch(h, m, n, A, lda, ipiv, info, pivot) ==
    IF h.kind = "null"
    THEN Return(rocblas_status_invalid_handle, <<"handle">>, <<>>, <<>>, <<>>)
    ELSE
    LET st == rocsolver_getf2_getrf_argCheck(h, m, n, lda, A, ipiv, info, pivot, 1)
    IN
    IF st # rocblas_status_continue
    THEN Return(st, <<"handle", "argCheck">>, <<>>, <<>>, <<>>)
    ELSE
    LET batch_count == 0
        d == rocsolver_getrf_getMemorySize(m, n, pivot, batch_count)
        sizes == NineSizes(d)
    IN
    IF rocblas_is_device_memory_size_query(h)
    THEN Return(rocblas_set_optimal_device_memory_size(h, sizes),
                <<"handle", "argCheck", "getMemorySize", "set_optimal">>,
                sizes, <<>>, <<>>)
    ELSE IF ~rocblas_device_malloc(h, sizes)
    THEN Return(rocblas_status_memory_error,
                <<"handle", "argCheck", "getMemorySize", "malloc">>,
                <<>>, sizes, <<>>)
    ELSE
    LET t == rocsolver_getrf_template(m, n, batch_count, pivot)
    IN  Return(t.status,
               <<"handle", "argCheck", "getMemorySize", "malloc", "template">>,
               <<>>, sizes,
               (IF d.size_scalars > 0 THEN <<init_scalars>> ELSE <<>>) \o t.ops)

rocsolver_getrf_impl(h, m, n, A, lda, ipiv, info, pivot) ==
    IF h.kind = "null"
    THEN Return(rocblas_status_invalid_handle, <<"handle">>, <<>>, <<>>, <<>>)
    ELSE
    LET st == rocsolver_getf2_getrf_argCheck(h, m, n, lda, A, ipiv, info, pivot, 1)
    IN
    IF st # rocblas_status_continue
    THEN Return(st, <<"handle", "argCheck">>, <<>>, <<>>, <<>>)
    ELSE
    LET batch_count == 1
        d == rocsolver_getrf_getMemorySize(m, n, pivot, batch_count)
        sizes == NineSizes(d)
    IN
    IF rocblas_is_device_memory_size_query(h)
    THEN Return(rocblas_set_optimal_device_memory_size(h, sizes),
                <<"handle", "argCheck", "getMemorySize", "set_optimal">>,
                sizes, <<>>, <<>>)
    ELSE IF ~rocblas_device_malloc(h, sizes)
    THEN Return(rocblas_status_memory_error,
                <<"handle", "argCheck", "getMemorySize", "malloc">>,
                <<>>, sizes, <<>>)
    ELSE
    LET t == rocsolver_getrf_template(m, n, batch_count, pivot)
    IN  Return(t.status,
               <<"handle", "argCheck", "getMemorySize", "malloc", "template">>,
               <<>>, sizes,
               (IF d.size_scalars > 0 THEN <<init_scalars>> ELSE <<>>) \o t.ops)

\* The validation status returned unless it is success, so that continue
\* leaves the entry point.
getrs_impl_returns_continue(h, trans, n, nrhs, A, lda, ipiv, B, ldb, batch_count) ==
    IF h.kind = "null"
    THEN Return(rocblas_status_invalid_handle, <<"handle">>, <<>>, <<>>, <<>>)
    ELSE
    LET st == rocsolver_getrs_argCheck(h, trans, n, nrhs, lda, ldb, A, B, ipiv,
                                       batch_count)
    IN
    IF st # rocblas_status_success
    THEN Return(st, <<"handle", "argCheck">>, <<>>, <<>>, <<>>)
    ELSE
    LET t == rocsolver_getrs_template(trans, n, nrhs, batch_count, "B")
    IN  Return(t.status,
               <<"handle", "argCheck", "getMemorySize", "malloc", "template">>,
               <<>>, <<>>, t.ops)

\* The workspace of the execution planned again, for a single instance,
\* after the size query has been answered.
getrs_impl_replans_for_one(h, trans, n, nrhs, A, lda, ipiv, B, ldb, batch_count) ==
    IF h.kind = "null"
    THEN Return(rocblas_status_invalid_handle, <<"handle">>, <<>>, <<>>, <<>>)
    ELSE
    LET st == rocsolver_getrs_argCheck(h, trans, n, nrhs, lda, ldb, A, B, ipiv,
                                       batch_count)
    IN
    IF st # rocblas_status_continue
    THEN Return(st, <<"handle", "argCheck">>, <<>>, <<>>, <<>>)
    ELSE
    LET d == rocsolver_getrs_getMemorySize(trans, n, nrhs, batch_count)
        sizes == FourSizes(d)
        again == FourSizes(rocsolver_getrs_getMemorySize(trans, n, nrhs, 1))
    IN
    IF rocblas_is_device_memory_size_query(h)
    THEN Return(rocblas_set_optimal_device_memory_size(h, sizes),
                <<"handle", "argCheck", "getMemorySize", "set_optimal">>,
                sizes, <<>>, <<>>)
    ELSE IF ~rocblas_device_malloc(h, again)
    THEN Return(rocblas_status_memory_error,
                <<"handle", "argCheck", "getMemorySize", "malloc">>,
                <<>>, again, <<>>)
    ELSE
    LET t == rocsolver_getrs_template(trans, n, nrhs, batch_count, "B")
    IN  Return(t.status,
               <<"handle", "argCheck", "getMemorySize", "malloc", "template">>,
               <<>>, again, t.ops)

rocsolver_getrs_strided_batched_impl(h, trans, n, nrhs, A, lda, ipiv, B, ldb, batch_count) ==
    IF h.kind = "null"
    THEN Return(rocblas_status_invalid_handle, <<"handle">>, <<>>, <<>>, <<>>)
    ELSE
    LET st == rocsolver_getrs_argCheck(h, trans, n, nrhs, lda, ldb, A, B, ipiv,
                                       batch_count)
    IN
    IF st # rocblas_status_continue
    THEN Return(st, <<"handle", "argCheck">>, <<>>, <<>>, <<>>)
    ELSE
    LET d == rocsolver_getrs_getMemorySize(trans, n, nrhs, batch_count)
        sizes == FourSizes(d)
    IN
    IF rocblas_is_device_memory_size_query(h)
    THEN Return(rocblas_set_optimal_device_memory_size(h, sizes),
                <<"handle", "argCheck", "getMemorySize", "set_optimal">>,
                sizes, <<>>, <<>>)
    ELSE IF ~rocblas_device_malloc(h, sizes)
    THEN Return(rocblas_status_memory_error,
                <<"handle", "argCheck", "getMemorySize", "malloc">>,
                <<>>, sizes, <<>>)
    ELSE
    LET t == rocsolver_getrs_template(trans, n, nrhs, batch_count, "B")
    IN  Return(t.status,
               <<"handle", "argCheck", "getMemorySize", "malloc", "template">>,
               <<>>, sizes, t.ops)

\* The size query not looked at: the call allocates and executes.
getri_impl_ignores_query(h, n, A, lda, ipiv, info, pivot) ==
    IF h.kind = "null"
    THEN Return(rocblas_status_invalid_handle, <<"handle">>, <<>>, <<>>, <<>>)
    ELSE
    LET st == rocsolver_getri_argCheck(h, n, lda, A, ipiv, info, pivot, 1)
    IN
    IF st # rocblas_status_continue
    THEN Return(st, <<"handle", "argCheck">>, <<>>, <<>>, <<>>)
    ELSE
    LET batch_count == 1
        d == rocsolver_getri_getMemorySize(n, batch_count)
        sizes == FourSizes(d) \o <<d.size_pivotval, d.size_pivotidx>>
    IN
    IF ~rocblas_device_malloc(h, sizes)
    THEN Return(rocblas_status_memory_error,
                <<"handle", "argCheck", "getMemorySize", "malloc">>,
                <<>>, sizes, <<>>)
    ELSE
    LET t == rocsolver_getri_template(n, batch_count, pivot)
    IN  Return(t.status,
               <<"handle", "argCheck", "getMemorySize", "malloc", "template">>,
               <<>>, sizes, t.ops)

\* The inversion running the factorizer on A before it inverts.
getri_impl_factors_first(h, n, A, lda, ipiv, info, pivot) ==
    IF h.kind = "null"
    THEN Return(rocblas_status_invalid_handle, <<"handle">>, <<>>, <<>>, <<>>)
    ELSE
    LET st == rocsolver_getri_argCheck(h, n, lda, A, ipiv, info, pivot, 1)
    IN
    IF st # rocblas_status_continue
    THEN Return(st, <<"handle", "argCheck">>, <<>>, <<>>, <<>>)
    ELSE
    LET batch_count == 1
        d == rocsolver_getri_getMemorySize(n, batch_count)
        sizes == FourSizes(d) \o <<d.size_pivotval, d.size_pivotidx>>
    IN
    IF rocblas_is_device_memory_size_query(h)
    THEN Return(rocblas_set_optimal_device_memory_size(h, sizes),
                <<"handle", "argCheck", "getMemorySize", "set_optimal">>,
                sizes, <<>>, <<>>)
    ELSE IF ~rocblas_device_malloc(h, sizes)
    THEN Return(rocblas_status_memory_error,
                <<"handle", "argCheck", "getMemorySize", "malloc">>,
                <<>>, sizes, <<>>)
    ELSE
    LET f == rocsolver_getrf_template(n, n, batch_count, pivot)
        t == rocsolver_getri_template(n, batch_count, pivot)
    IN  Return(t.status,
               <<"handle", "argCheck", "getMemorySize", "malloc", "template">>,
               <<>>, sizes, f.ops \o t.ops)

rocsolver_getri_impl(h, n, A, lda, ipiv, info, pivot) ==
    IF h.kind = "null"
    THEN Return(rocblas_status_invalid_handle, <<"handle">>, <<>>, <<>>, <<>>)
    ELSE
    LET st == rocsolver_getri_argCheck(h, n, lda, A, ipiv, info, pivot, 1)
    IN
    IF st # rocblas_status_continue
    THEN Return(st, <<"handle", "argCheck">>, <<>>, <<>>, <<>>)
    ELSE
    LET batch_count == 1
        d == rocsolver_getri_getMemorySize(n, batch_count)
        sizes == FourSizes(d) \o <<d.size_pivotval, d.size_pivotidx>>
    IN
    IF rocblas_is_device_memory_size_query(h)
    THEN Return(rocblas_set_optimal_device_memory_size(h, sizes),
                <<"handle", "argCheck", "getMemorySize", "set_optimal">>,
                sizes, <<>>, <<>>)
    ELSE IF ~rocblas_device_malloc(h, sizes)
    THEN Return(rocblas_status_memory_error,
                <<"handle", "argCheck", "getMemorySize", "malloc">>,
                <<>>, sizes, <<>>)
    ELSE
    LET t == rocsolver_getri_template(n, batch_count, pivot)
    IN  Return(t.status,
               <<"handle", "argCheck", "getMemorySize", "malloc", "template">>,
               <<>>, sizes, t.ops)

\* The allocation looked at only after the template has issued its kernels.
getri_outofplace_impl_late_mem_check(h, n, A, lda, ipiv, C, ldc, info, pivot, batch_count) ==
    IF h.kind = "null"
    THEN Return(rocblas_status_invalid_handle, <<"handle">>, <<>>, <<>>, <<>>)
    ELSE
    LET st == rocsolver_getri_outofplace_argCheck(h, n, lda, ldc, A, C, ipiv,
                                                  info, pivot, batch_count)
    IN
    IF st # rocblas_status_continue
    THEN Return(st, <<"handle", "argCheck">>, <<>>, <<>>, <<>>)
    ELSE
    LET d == rocsolver_getri_outofplace_getMemorySize(n, batch_count)
        sizes == FourSizes(d)
        t == rocsolver_getri_outofplace_template(n, batch_count, pivot)
    IN
    IF rocblas_is_device_memory_size_query(h)
    THEN Return(rocblas_set_optimal_device_memory_size(h, sizes),
                <<"handle", "argCheck", "getMemorySize", "set_optimal">>,
                sizes, <<>>, <<>>)
    ELSE IF ~rocblas_device_malloc(h, sizes)
    THEN Return(rocblas_status_memory_error,
                <<"handle", "argCheck", "getMemorySize", "malloc", "template">>,
                <<>>, sizes, t.ops)
    ELSE Return(t.status,
                <<"handle", "argCheck", "getMemorySize", "malloc", "template">>,
                <<>>, sizes, t.ops)

rocsolver_getri_outofplace_strided_batched_impl(h, n, A, lda, ipiv, C, ldc, info, pivot, batch_count) ==
    IF h.kind = "null"
    THEN Return(rocblas_status_invalid_handle, <<"handle">>, <<>>, <<>>, <<>>)
    ELSE
    LET st == rocsolver_getri_outofplace_argCheck(h, n, lda, ldc, A, C, ipiv,
                                                  info, pivot, batch_count)
    IN
    IF st # rocblas_status_continue
    THEN Return(st, <<"handle", "argCheck">>, <<>>, <<>>, <<>>)
    ELSE
    LET d == rocsolver_getri_outofplace_getMemorySize(n, batch_count)
        sizes == FourSizes(d)
    IN
    IF rocblas_is_device_memory_size_query(h)
    THEN Return(rocblas_set_optimal_device_memory_size(h, sizes),
                <<"handle", "argCheck", "getMemorySize", "set_optimal">>,
                sizes, <<>>, <<>>)
    ELSE IF ~rocblas_device_malloc(h, sizes)
    THEN Return(rocblas_status_memory_error,
                <<"handle", "argCheck", "getMemorySize", "malloc">>,
                <<>>, sizes, <<>>)
    ELSE
    LET t == rocsolver_getri_outofplace_template(n, batch_count, pivot)
    IN  Return(t.status,
               <<"handle", "argCheck", "getMemorySize", "malloc", "template">>,
               <<>>, sizes, t.ops)

\* The gesv_outofplace entry point, following the call protocol every entry
\* point follows.
rocsolver_gesv_outofplace_impl(h, n, nrhs, A, lda, ipiv, B, ldb, X, ldx, info, batch_count, prod) ==
    IF h.kind = "null"
    THEN Return(rocblas_status_invalid_handle, <<"handle">>, <<>>, <<>>, <<>>)
    ELSE
    LET st == rocsolver_gesv_outofplace_argCheck(h, n, nrhs, lda, ldb, ldx, A, B,
                                                 X, ipiv, info, batch_count,
                                                 prod)
    IN
    IF st # rocblas_status_continue
    THEN Return(st, <<"handle", "argCheck">>, <<>>, <<>>, <<>>)
    ELSE
    LET d == rocsolver_gesv_outofplace_getMemorySize(n, nrhs, batch_count)
        sizes == NineSizes(d)
    IN
    IF rocblas_is_device_memory_size_query(h)
    THEN Return(rocblas_set_optimal_device_memory_size(h, sizes),
                <<"handle", "argCheck", "getMemorySize", "set_optimal">>,
                sizes, <<>>, <<>>)
    ELSE IF ~rocblas_device_malloc(h, sizes)
    THEN Return(rocblas_status_memory_error,
                <<"handle", "argCheck", "getMemorySize", "malloc">>,
                <<>>, sizes, <<>>)
    ELSE
    LET t == rocsolver_gesv_outofplace_template(n, nrhs, batch_count)
    IN  Return(t.status,
               <<"handle", "argCheck", "getMemorySize", "malloc", "template">>,
               <<>>, sizes,
               (IF d.size_scalars > 0 THEN <<init_scalars>> ELSE <<>>) \o t.ops)

\* C wrappers.  The four element types share one body; the 64-bit index
\* forms exist only in a build with HAVE_ROCBLAS_64.
NotImplemented == Return(rocblas_status_not_implemented, <<>>, <<>>, <<>>, <<>>)

rocsolver_sgetrf(h, m, n, A, lda, ipiv, info) ==
    rocsolver_getrf_impl(h, m, n, A, lda, ipiv, info, TRUE)

rocsolver_sgetrf_64(have64, h, m, n, A, lda, ipiv, info) ==
    IF have64
    THEN rocsolver_getrf_impl(h, m, n, A, lda, ipiv, info, TRUE)
    ELSE NotImplemented

\* The non-pivoting wrapper asking the impl for pivoting.
sgetrf_npvt_with_pivoting(h, m, n, A, lda, info) ==
    rocsolver_getrf_impl(h, m, n, A, lda, FALSE, info, TRUE)

rocsolver_sgetrf_npvt(h, m, n, A, lda, info) ==
    rocsolver_getrf_impl(h, m, n, A, lda, FALSE, info, FALSE)

rocsolver_sgetrf_npvt_64(have64, h, m, n, A, lda, info) ==
    IF have64
    THEN rocsolver_getrf_impl(h, m, n, A, lda, FALSE, info, FALSE)
    ELSE NotImplemented

rocsolver_sgetrs_strided_batched(h, trans, n, nrhs, A, lda, ipiv, B, ldb, batch_count) ==
    rocsolver_getrs_strided_batched_impl(h, trans, n, nrhs, A, lda, ipiv, B,
                                         ldb, batch_count)

rocsolver_sgetrs_strided_batched_64(have64, h, trans, n, nrhs, A, lda, ipiv, B, ldb, batch_count) ==
    IF have64
    THEN rocsolver_getrs_strided_batched_impl(h, trans, n, nrhs, A, lda, ipiv,
                                              B, ldb, batch_count)
    ELSE NotImplemented

rocsolver_sgetri(h, n, A, lda, ipiv, info) ==
    rocsolver_getri_impl(h, n, A, lda, ipiv, info, TRUE)

rocsolver_sgetri_npvt(h, n, A, lda, info) ==
    rocsolver_getri_impl(h, n, A, lda, FALSE, info, FALSE)

rocsolver_sgetri_outofplace_strided_batched(h, n, A, lda, ipiv, C, ldc, info, batch_count) ==
    rocsolver_getri_outofplace_strided_batched_impl(h, n, A, lda, ipiv, C, ldc,
                                                    info, TRUE, batch_count)

rocsolver_sgetri_npvt_outofplace_strided_batched(h, n, A, lda, C, ldc, info, batch_count) ==
    rocsolver_getri_outofplace_strided_batched_impl(h, n, A, lda, FALSE, C, ldc,
                                                    info, FALSE, batch_count)

rocsolver_sgesv_outofplace(h, n, nrhs, A, lda, ipiv, B, ldb, X, ldx, info, batch_count, prod) ==
    rocsolver_gesv_outofplace_impl(h, n, nrhs, A, lda, ipiv, B, ldb, X, ldx,
                                   info, batch_count, prod)

\* ------------------------------------------------------------------- state
VARIABLES
    handle,   \* the rocblas handle the call is made on
    have64,   \* the build defines HAVE_ROCBLAS_64
    call,     \* the entry point called and its arguments
    result,   \* what the call did on the host (Return record)
    stream,   \* kernels issued and not yet run, in FIFO order
    mem,      \* device buffers of the caller: buffer -> instance -> value
    rd,       \* buffers some kernel has read
    wr        \* buffers some kernel has written

vars == <<handle, have64, call, result, stream, mem, rd, wr>>

CallerBufs == {"A", "B", "X", "C", "ipiv", "info"}
TransVals == {rocblas_operation_none, rocblas_operation_transpose,
              rocblas_operation_conjugate_transpose, "other"}

\* The caller's buffers before the call: instance i of buffer b holds <<b, i>>.
InitialMem == [b \in CallerBufs |-> [i \in Instances |-> <<b, ToString(i)>>]]

\* The sets of null pointers a caller passes among the pointers P of an entry
\* point: none, any one, or all of them.
NullSets(P) == {{}} \cup {{p} : p \in P} \cup {P}

NoCall == [ep |-> "none"]
NoResult == Return("none", <<>>, <<>>, <<>>, <<>>)

Args(ep, m, n, nrhs, lda, ldb, ldx, bc, trans, nul, prod) ==
    [ep |-> ep, m |-> m, n |-> n, nrhs |-> nrhs, lda |-> lda, ldb |-> ldb,
     ldx |-> ldx, batch_count |-> bc, trans |-> trans, nul |-> nul,
     prod |-> prod]

Init ==
    /\ handle \in HandleStates
    /\ have64 \in BOOLEAN
    /\ call = NoCall
    /\ result = NoResult
    /\ stream = <<>>
    /\ mem = InitialMem
    /\ rd = {}
    /\ wr = {}

\* The host side of a call: record the arguments, what the call did, put the
\* kernels it issued on the stream and let the handle keep a reported size.
Host(c, r) ==
    /\ call' = c
    /\ result' = r
    /\ stream' = r.ops
    /\ handle' = IF r.reported # <<>>
                 THEN [handle EXCEPT !.qsize = Max(@, SumSeq(r.reported))]
                 ELSE handle
    /\ UNCHANGED <<have64, mem, rd, wr>>

Call_sgetrf ==
    /\ call = NoCall
    /\ \E m \in GetrfDims, n \in GetrfDims, lda \in LdVals,
       nul \in NullSets({"A", "ipiv", "info"}) :
        Host(Args("sgetrf", m, n, 0, lda, 0, 0, 1, "", nul, FALSE),
             rocsolver_sgetrf(handle, m, n, "A" \notin nul, lda,
                              "ipiv" \notin nul, "info" \notin nul))

Call_sgetrf_64 ==
    /\ call = NoCall
    /\ \E m \in GetrfDims, n \in GetrfDims, lda \in LdVals,
       nul \in NullSets({"A", "ipiv", "info"}) :
        Host(Args("sgetrf_64", m, n, 0, lda, 0, 0, 1, "", nul, FALSE),
             rocsolver_sgetrf_64(have64, handle, m, n, "A" \notin nul, lda,
                                 "ipiv" \notin nul, "info" \notin nul))

Call_sgetrf_npvt ==
    /\ call = NoCall
    /\ \E m \in GetrfDims, n \in GetrfDims, lda \in LdVals,
       nul \in NullSets({"A", "info"}) :
        Host(Args("sgetrf_npvt", m, n, 0, lda, 0, 0, 1, "", nul \cup {"ipiv"},
                  FALSE),
             rocsolver_sgetrf_npvt(handle, m, n, "A" \notin nul, lda,
                                   "info" \notin nul))

Call_sgetrf_npvt_64 ==
    /\ call = NoCall
    /\ \E m \in GetrfDims, n \in GetrfDims, lda \in LdVals,
       nul \in NullSets({"A", "info"}) :
        Host(Args("sgetrf_npvt_64", m, n, 0, lda, 0, 0, 1, "",
                  nul \cup {"ipiv"}, FALSE),
             rocsolver_sgetrf_npvt_64(have64, handle, m, n, "A" \notin nul, lda,
                                      "info" \notin nul))

Call_sgetrs_strided_batched ==
    /\ call = NoCall
    /\ \E trans \in TransVals, n \in DimVals, nrhs \in DimVals, lda \in LdVals,
       ldb \in LdVals, bc \in BatchVals, nul \in NullSets({"A", "ipiv", "B"}) :
        Host(Args("sgetrs_strided_batched", n, n, nrhs, lda, ldb, 0, bc, trans,
                  nul, FALSE),
             rocsolver_sgetrs_strided_batched(
                 handle, trans, n, nrhs, "A" \notin nul, lda, "ipiv" \notin nul,
                 "B" \notin nul, ldb, bc))

Call_sgetrs_strided_batched_64 ==
    /\ call = NoCall
    /\ \E trans \in TransVals, n \in DimVals, nrhs \in DimVals, lda \in LdVals,
       ldb \in LdVals, bc \in BatchVals, nul \in NullSets({"A", "ipiv", "B"}) :
        Host(Args("sgetrs_strided_batched_64", n, n, nrhs, lda, ldb, 0, bc,
                  trans, nul, FALSE),
             rocsolver_sgetrs_strided_batched_64(
                 have64, handle, trans, n, nrhs, "A" \notin nul, lda,
                 "ipiv" \notin nul, "B" \notin nul, ldb, bc))

Call_sgetri ==
    /\ call = NoCall
    /\ \E n \in DimVals, lda \in LdVals, nul \in NullSets({"A", "ipiv", "info"}) :
        Host(Args("sgetri", n, n, 0, lda, 0, 0, 1, "", nul, FALSE),
             rocsolver_sgetri(handle, n, "A" \notin nul, lda, "ipiv" \notin nul,
                              "info" \notin nul))

Call_sgetri_npvt ==
    /\ call = NoCall
    /\ \E n \in DimVals, lda \in LdVals, nul \in NullSets({"A", "info"}) :
        Host(Args("sgetri_npvt", n, n, 0, lda, 0, 0, 1, "", nul \cup {"ipiv"},
                  FALSE),
             rocsolver_sgetri_npvt(handle, n, "A" \notin nul, lda,
                                   "info" \notin nul))

Call_sgetri_outofplace_strided_batched ==
    /\ call = NoCall
    /\ \E n \in DimVals, lda \in LdVals, ldc \in LdVals, bc \in BatchVals,
       nul \in NullSets({"A", "C", "ipiv", "info"}) :
        Host(Args("sgetri_outofplace_strided_batched", n, n, 0, lda, 0, ldc, bc,
                  "", nul, FALSE),
             rocsolver_sgetri_outofplace_strided_batched(
                 handle, n, "A" \notin nul, lda, "ipiv" \notin nul,
                 "C" \notin nul, ldc, "info" \notin nul, bc))

Call_sgetri_npvt_outofplace_strided_batched ==
    /\ call = NoCall
    /\ \E n \in DimVals, lda \in LdVals, ldc \in LdVals, bc \in BatchVals,
       nul \in NullSets({"A", "C", "info"}) :
        Host(Args("sgetri_npvt_outofplace_strided_batched", n, n, 0, lda, 0,
                  ldc, bc, "", nul \cup {"ipiv"}, FALSE),
             rocsolver_sgetri_npvt_outofplace_strided_batched(
                 handle, n, "A" \notin nul, lda, "C" \notin nul, ldc,
                 "info" \notin nul, bc))

Call_sgesv_outofplace ==
    /\ call = NoCall
    /\ \E n \in NVals, nrhs \in NVals, lda \in LdVals, ldb \in LdVals,
       ldx \in LdVals, bc \in BatchVals,
       nul \in NullSets({"A", "B", "X", "ipiv", "info"}) :
        \E prod \in IntProductTruth(Max(nrhs, 0), Max(n, 0)) :
            Host(Args("sgesv_outofplace", n, n, nrhs, lda, ldb, ldx, bc,
                      rocblas_operation_none, nul, prod),
                 rocsolver_sgesv_outofplace(
                     handle, n, nrhs, "A" \notin nul, lda, "ipiv" \notin nul,
                     "B" \notin nul, ldb, "X" \notin nul, ldx,
                     "info" \notin nul, bc, prod))

\* The value a kernel leaves in instance i of the A, B, X, C or ipiv buffer
\* it writes.
Written(op, b, i) ==
    CASE b = "ipiv" -> <<"PIV">> \o mem["A"][i]
      [] op.k = "copy_mat" -> mem[op.src][i]
      [] op.k = "getrf" -> <<"LU">> \o mem["A"][i]
      [] op.k = "getrs" ->
            <<"getrs", op.opt>> \o mem["A"][i] \o mem["ipiv"][i] \o mem[op.dst][i]
      [] op.k = "getri" ->
            <<"getri">> \o mem["A"][i]
            \o (IF op.opt = "pivot" THEN mem["ipiv"][i] ELSE <<>>)
      [] OTHER -> mem[op.dst][i]

\* The value a kernel leaves in info of instance i.  `col` is the 1-based
\* column of the first exactly zero pivot of the instance, 0 when there is
\* none: the factorization records it in an info that is still 0.
WrittenInfo(op, i, col) ==
    CASE op.k = "reset_info" -> <<0>>
      [] op.k = "getrf" ->
            IF mem["info"][i] = <<0>> /\ col > 0 THEN <<col>> ELSE mem["info"][i]
      [] OTHER -> mem["info"][i]

\* The columns the first zero pivot of an m by n matrix can be at (0: no
\* zero pivot): the first and the last of the min(m, n) columns stand for all.
PivotCols(m, n) == {0, 1, IF m <= n THEN m ELSE n}

Reads(op) ==
    CASE op.k = "copy_mat" -> {op.src}
      [] op.k = "getrf" -> {"A", "info"}
      [] op.k = "getrs" -> {"A", "ipiv", op.dst}
      [] op.k = "getri" -> {"A"} \cup (IF op.opt = "pivot" THEN {"ipiv"} ELSE {})
      [] OTHER -> {}

Writes(op) ==
    CASE op.k = "reset_info" -> {"info"}
      [] op.k = "getrf" ->
            {"A", "info"} \cup (IF op.opt = "pivot" THEN {"ipiv"} ELSE {})
      [] OTHER -> {op.dst}

\* The device runs the kernel at the head of the stream over its instances.
\* Whether and where a pivot is exactly zero depends on the matrix values,
\* which are not interpreted: every instance may meet one at any column.
DeviceStep ==
    /\ stream # <<>>
    /\ LET op == Head(stream)
           on == 1 .. op.bc
       IN  \E col \in (IF op.k = "getrf"
                       THEN [on -> PivotCols(call.m, call.n)]
                       ELSE {[i \in on |-> 0]}) :
             mem' = [b \in CallerBufs |->
                       [i \in Instances |->
                          IF i \notin on \/ b \notin Writes(op) THEN mem[b][i]
                          ELSE IF b = "info" THEN WrittenInfo(op, i, col[i])
                          ELSE Written(op, b, i)]]
    /\ rd' = rd \cup Reads(Head(stream))
    /\ wr' = wr \cup Writes(Head(stream))
    /\ stream' = Tail(stream)
    /\ UNCHANGED <<handle, have64, call, result>>

Next ==
    \/ Call_sgetrf
    \/ Call_sgetrf_64
    \/ Call_sgetrf_npvt
    \/ Call_sgetrf_npvt_64
    \/ Call_sgetrs_strided_batched
    \/ Call_sgetrs_strided_batched_64
    \/ Call_sgetri
    \/ Call_sgetri_npvt
    \/ Call_sgetri_outofplace_strided_batched
    \/ Call_sgetri_npvt_outofplace_strided_batched
    \/ Call_sgesv_outofplace
    \/ DeviceStep

Spec == Init /\ [][Next]_vars

\* ------------------------------------- validation of gesv_outofplace alone
\* rocsolver_gesv_outofplace_argCheck applied to every combination of sizes,
\* null and non-null pointers and handle mode.  The handle is not null: the
\* entry point has checked it before it validates the arguments.
InitArgCheck ==
    /\ handle \in {h \in HandleStates : h.kind # "null"}
    /\ have64 = TRUE
    /\ \E n \in NVals, nrhs \in NVals, lda \in LdVals, ldb \in LdVals,
          ldx \in LdVals, bc \in BatchVals,
          nul \in SUBSET {"A", "B", "X", "ipiv", "info"} :
         \E prod \in IntProductTruth(Max(nrhs, 0), Max(n, 0)) :
            call = Args("gesv_outofplace_argCheck", n, n, nrhs, lda, ldb, ldx,
                        bc, rocblas_operation_none, nul, prod)
    /\ result = NoResult
    /\ stream = <<>>
    /\ mem = InitialMem
    /\ rd = {}
    /\ wr = {}

ArgCheck_gesv_outofplace ==
    /\ call.ep = "gesv_outofplace_argCheck"
    /\ result = NoResult
    /\ result' = Return(rocsolver_gesv_outofplace_argCheck(
                           handle, call.n, call.nrhs, call.lda, call.ldb,
                           call.ldx, "A" \notin call.nul, "B" \notin call.nul,
                           "X" \notin call.nul, "ipiv" \notin call.nul,
                           "info" \notin call.nul, call.batch_count, call.prod),
                       <<"argCheck">>, <<>>, <<>>, <<>>)
    /\ UNCHANGED <<handle, have64, call, stream, mem, rd, wr>>

NextArgCheck == ArgCheck_gesv_outofplace

SpecArgCheck == InitArgCheck /\ [][NextArgCheck]_vars

\* ------------------------------------ template of gesv_outofplace alone
\* The statuses the factorizer and the solver can hand back to the template
\* that invokes them.
SubStatuses == {rocblas_status_success, rocblas_status_memory_error,
                rocblas_status_invalid_size}
\* sizes a call passes once its validation has passed
ValidDims == {d \in NVals : d >= 0}
ValidBatch == 0 .. MaxBatch

\* rocsolver_gesv_outofplace_template applied to every valid problem shape and
\* every pair of statuses its two sub-templates hand back.
InitTemplate ==
    /\ handle \in {h \in HandleStates : h.kind = "exec"}
    /\ have64 = TRUE
    /\ \E n \in ValidDims, nrhs \in ValidDims, bc \in ValidBatch,
          fst \in SubStatuses, sst \in SubStatuses :
         call = [ep |-> "gesv_outofplace_template", m |-> n, n |-> n,
                 nrhs |-> nrhs, batch_count |-> bc, getrf_status |-> fst,
                 getrs_status |-> sst]
    /\ result = NoResult
    /\ stream = <<>>
    /\ mem = InitialMem
    /\ rd = {}
    /\ wr = {}

Template_gesv_outofplace ==
    /\ call.ep = "gesv_outofplace_template"
    /\ result = NoResult
    /\ LET f == Issued(call.getrf_status,
                       rocsolver_getrf_template(call.n, call.n,
                                                call.batch_count, TRUE).ops)
           s == Issued(call.getrs_status,
                       rocsolver_getrs_template(rocblas_operation_none, call.n,
                                                call.nrhs, call.batch_count,
                                                "X").ops)
           t == gesv_outofplace_steps(call.n, call.nrhs, call.batch_count, f, s)
       IN  /\ result' = Return(t.status, <<"template">>, <<>>, <<>>, t.ops)
           /\ stream' = t.ops
    /\ UNCHANGED <<handle, have64, call, mem, rd, wr>>

NextTemplate == Template_gesv_outofplace

SpecTemplate == InitTemplate /\ [][NextTemplate]_vars

\* The workspace the template of gesv_outofplace hands to the factorizer, out
\* of the workspace d it was given: all nine buffers and the flag.
getrf_workspace(d) == d
\* The workspace it hands to the solver: the four work buffers and the flag.
getrs_workspace(d) ==
    [size_work1 |-> d.size_work1, size_work2 |-> d.size_work2,
     size_work3 |-> d.size_work3, size_work4 |-> d.size_work4,
     optim_mem |-> d.optim_mem]

\* ------------------------------------- planner of gesv_outofplace alone
\* rocsolver_gesv_outofplace_getMemorySize applied to every valid problem
\* shape.  The sizes of the two sub-planners are those of their models; the
\* optimal-memory flag each reports is whatever that planner decides.
InitPlanner ==
    /\ handle \in {h \in HandleStates : h.kind # "null"}
    /\ have64 = TRUE
    /\ \E n \in ValidDims, nrhs \in ValidDims, bc \in ValidBatch,
          opt1 \in BOOLEAN, opt2 \in BOOLEAN :
         call = [ep |-> "gesv_outofplace_getMemorySize", n |-> n,
                 nrhs |-> nrhs, batch_count |-> bc, opt1 |-> opt1,
                 opt2 |-> opt2]
    /\ result = NoResult
    /\ stream = <<>>
    /\ mem = InitialMem
    /\ rd = {}
    /\ wr = {}

\* what the planner of the factorizer answers for the call in `call`
PlannerGetrf ==
    [rocsolver_getrf_getMemorySize(call.n, call.n, TRUE, call.batch_count)
        EXCEPT !.optim_mem = call.opt1]
\* what the planner of the solver answers for the call in `call`
PlannerGetrs ==
    [rocsolver_getrs_getMemorySize(rocblas_operation_none, call.n, call.nrhs,
                                   call.batch_count)
        EXCEPT !.optim_mem = call.opt2]

GetMemorySize_gesv_outofplace ==
    /\ call.ep = "gesv_outofplace_getMemorySize"
    /\ result = NoResult
    /\ result' = gesv_outofplace_sizes(call.n, call.nrhs, call.batch_count,
                                       PlannerGetrf, PlannerGetrs)
    /\ UNCHANGED <<handle, have64, call, stream, mem, rd, wr>>

NextPlanner == GetMemorySize_gesv_outofplace

SpecPlanner == InitPlanner /\ [][NextPlanner]_vars

\* -------------------------- batch strides of getri_outofplace_strided_batched
\* A 64-bit rocblas_stride as four 16-bit limbs, least significant first; a
\* 32-bit rocblas_int as two.
StrideVals ==
    {<<0, 0, 0, 0>>,             \* 0
     <<1, 0, 0, 0>>,             \* 1
     <<65535, 32767, 0, 0>>,     \* 2^31 - 1
     <<0, 32768, 0, 0>>,         \* 2^31
     <<0, 0, 1, 0>>,             \* 2^32
     <<1, 0, 1, 0>>}             \* 2^32 + 1

\* Conversion of a rocblas_stride to rocblas_int: the low 32 bits are kept.
ToRocblasInt(s) == <<s[1], s[2]>>
\* Conversion of a rocblas_int to rocblas_stride: the sign is extended.
ToRocblasStride(i) ==
    LET ext == IF i[2] >= 32768 THEN 65535 ELSE 0
    IN  <<i[1], i[2], ext, ext>>

\* The strides the inversion template receives from the impl: strideA and
\* strideP are rocblas_stride parameters of the impl, strideC is a rocblas_int
\* parameter.
getri_outofplace_impl_strides(strideA, strideP, strideC) ==
    [strideA |-> strideA, strideP |-> strideP,
     strideC |-> ToRocblasStride(ToRocblasInt(strideC))]

sgetri_outofplace_strides(strideA, strideP, strideC) ==
    getri_outofplace_impl_strides(strideA, strideP, strideC)

\* the non-pivoting form has no strideP parameter and passes 0
sgetri_npvt_outofplace_strides(strideA, strideC) ==
    getri_outofplace_impl_strides(strideA, <<0, 0, 0, 0>>, strideC)

InitStride ==
    /\ handle \in {h \in HandleStates : h.kind = "exec"}
    /\ have64 = TRUE
    /\ \E ep \in {"sgetri_outofplace_strided_batched",
                  "sgetri_npvt_outofplace_strided_batched"},
          sA \in StrideVals, sP \in StrideVals, sC \in StrideVals :
         call = [ep |-> ep, pass |-> "strides", strideA |-> sA,
                 strideP |-> IF ep = "sgetri_outofplace_strided_batched"
                             THEN sP ELSE <<0, 0, 0, 0>>,
                 strideC |-> sC]
    /\ result = NoResult
    /\ stream = <<>>
    /\ mem = InitialMem
    /\ rd = {}
    /\ wr = {}

Stride_sgetri_outofplace ==
    /\ call.ep = "sgetri_outofplace_strided_batched"
    /\ result = NoResult
    /\ result' = sgetri_outofplace_strides(call.strideA, call.strideP,
                                           call.strideC)
    /\ UNCHANGED <<handle, have64, call, stream, mem, rd, wr>>

Stride_sgetri_npvt_outofplace ==
    /\ call.ep = "sgetri_npvt_outofplace_strided_batched"
    /\ result = NoResult
    /\ result' = sgetri_npvt_outofplace_strides(call.strideA, call.strideC)
    /\ UNCHANGED <<handle, have64, call, stream, mem, rd, wr>>

NextStride == Stride_sgetri_outofplace \/ Stride_sgetri_npvt_outofplace

SpecStride == InitStride /\ [][NextStride]_vars

\* ------------------------------------ instances of a batch, one at a time
\* The kernels of a call run in issue order, but the instances of one kernel
\* run in any order: a kernel on the stream carries the instances it has
\* still to do, the device does one of them per step, and the next kernel
\* starts when none is left.  Whether instance i has a zero pivot, and at
\* which column, is a property of its matrix, fixed with the call (col).
BatchDims == {1, 2}

BatchItems(ops) ==
    [k \in 1 .. Len(ops) |-> [op |-> ops[k], todo |-> 1 .. ops[k].bc]]

BatchHost(c, r) ==
    /\ call' = c
    /\ result' = r
    /\ stream' = BatchItems(r.ops)
    /\ UNCHANGED <<handle, have64, mem, rd, wr>>

Batch_sgesv_outofplace ==
    /\ call = NoCall
    /\ handle.kind = "exec"
    /\ \E n \in BatchDims, nrhs \in BatchDims, bc \in ValidBatch :
        \E col \in [Instances -> PivotCols(n, n)] :
            BatchHost(Args("sgesv_outofplace", n, n, nrhs, n, n, n, bc,
                           rocblas_operation_none, {}, TRUE)
                        @@ [col |-> col],
                      rocsolver_sgesv_outofplace(handle, n, nrhs, TRUE, n,
                                                 TRUE, TRUE, n, TRUE, n, TRUE,
                                                 bc, TRUE))

Batch_sgetrs_strided_batched ==
    /\ call = NoCall
    /\ handle.kind = "exec"
    /\ \E n \in BatchDims, nrhs \in BatchDims, bc \in ValidBatch,
          trans \in {rocblas_operation_none, rocblas_operation_transpose} :
        BatchHost(Args("sgetrs_strided_batched", n, n, nrhs, n, n, 0, bc,
                       trans, {}, FALSE)
                    @@ [col |-> [i \in Instances |-> 0]],
                  rocsolver_sgetrs_strided_batched(handle, trans, n, nrhs,
                                                   TRUE, n, TRUE, TRUE, n, bc))

Batch_sgetrf ==
    /\ call = NoCall
    /\ handle.kind = "exec"
    /\ \E m \in BatchDims, n \in BatchDims :
        \E col \in [Instances -> PivotCols(m, n)] :
            BatchHost(Args("sgetrf", m, n, 0, m, 0, 0, 1, "", {}, FALSE)
                        @@ [col |-> col],
                      rocsolver_sgetrf(handle, m, n, TRUE, m, TRUE, TRUE))

\* One instance of the kernel at the head of the stream.
InstanceStep ==
    /\ stream # <<>>
    /\ LET it == Head(stream)
           op == it.op
       IN  IF it.todo = {}
           THEN /\ stream' = Tail(stream)
                /\ UNCHANGED <<mem, rd, wr>>
           ELSE \E i \in it.todo :
                  /\ mem' = [b \in CallerBufs |->
                               IF b \notin Writes(op) THEN mem[b]
                               ELSE [mem[b] EXCEPT ![i] =
                                       IF b = "info"
                                       THEN WrittenInfo(op, i, call.col[i])
                                       ELSE Written(op, b, i)]]
                  /\ rd' = rd \cup Reads(op)
                  /\ wr' = wr \cup Writes(op)
                  /\ stream' = IF it.todo = {i} THEN Tail(stream)
                               ELSE <<[it EXCEPT !.todo = @ \ {i}]>>
                                    \o Tail(stream)
    /\ UNCHANGED <<handle, have64, call, result>>

NextBatch ==
    \/ Batch_sgesv_outofplace
    \/ Batch_sgetrs_strided_batched
    \/ Batch_sgetrf
    \/ InstanceStep

SpecBatch == Init /\ [][NextBatch]_vars

\* ------------------------------------------- the factorization in numbers
\* Exact arithmetic: a rational is <<numerator, denominator>> in lowest terms
\* with a positive denominator; <<0, 0>> is the undefined result of a
\* division by zero and of any operation on it.
Abs(x) == IF x < 0 THEN -x ELSE x

RECURSIVE Gcd(_, _)
Gcd(a, b) == IF b = 0 THEN a ELSE Gcd(b, a % b)

Rat(num, den) ==
    IF den = 0 THEN <<0, 0>>
    ELSE LET g == Gcd(Abs(num), Abs(den))
             s == IF den < 0 THEN -1 ELSE 1
         IN  <<(s * num) \div g, (s * den) \div g>>

Zero == <<0, 1>>
QSub(a, b) == Rat(a[1] * b[2] - b[1] * a[2], a[2] * b[2])
QMul(a, b) == Rat(a[1] * b[1], a[2] * b[2])
QDiv(a, b) == Rat(a[1] * b[2], a[2] * b[1])
\* |a| > |b|
QAbsGreater(a, b) == Abs(a[1]) * b[2] > Abs(b[1]) * a[2]

\* A matrix is the tuple of its rows.  Rows r1 and r2 exchanged over the
\* columns cols.
SwapRows(A, r1, r2, cols) ==
    [i \in DOMAIN A |->
       [c \in DOMAIN A[i] |->
          IF c \notin cols THEN A[i][c]
          ELSE IF i = r1 THEN A[r2][c]
          ELSE IF i = r2 THEN A[r1][c]
          ELSE A[i][c]]]

\* Pivot search in column j from the diagonal down: the row of the entry of
\* largest magnitude, the lowest such row when several tie.
iamax(A, j, m) ==
    CHOOSE p \in j .. m :
        \A i \in j .. m :
            /\ ~QAbsGreater(A[i][j], A[p][j])
            /\ i < p => QAbsGreater(A[p][j], A[i][j])

\* Column j eliminated: the column below a nonzero pivot is divided by it,
\* and the rows below have the pivot row's multiple taken off over the
\* columns cols to the right.
Eliminate(A, j, cols) ==
    LET d == A[j][j]
        L == [i \in DOMAIN A |->
                [c \in DOMAIN A[i] |->
                   IF i > j /\ c = j /\ d # Zero THEN QDiv(A[i][j], d)
                   ELSE A[i][c]]]
    IN  [i \in DOMAIN A |->
           [c \in DOMAIN A[i] |->
              IF i > j /\ c > j /\ c \in cols
              THEN QSub(L[i][c], QMul(L[i][j], L[j][c]))
              ELSE L[i][c]]]

\* Unblocked, column-by-column elimination of the columns j .. last of the
\* panel whose first row and column is r0, rows down to m, touching the
\* columns cols only.  piv and info are relative to the panel: 1 is row r0.
RECURSIVE getf2_columns(_, _, _, _, _, _, _)
getf2_columns(S, j, last, r0, m, cols, pivot) ==
    IF j > last THEN S
    ELSE LET p == IF pivot THEN iamax(S.A, j, m) ELSE j
             P == SwapRows(S.A, j, p, cols)
         IN  getf2_columns(
                 [A |-> Eliminate(P, j, cols),
                  piv |-> Append(S.piv, p - r0 + 1),
                  info |-> IF S.info = 0 /\ P[j][j] = Zero
                           THEN j - r0 + 1 ELSE S.info],
                 j + 1, last, r0, m, cols, pivot)

\* The base case on the jb columns from r0, confined to the columns up to
\* cmax.
rocsolver_getf2(A, r0, jb, m, cmax, pivot) ==
    getf2_columns([A |-> A, piv |-> <<>>, info |-> 0], r0, r0 + jb - 1, r0, m,
                  r0 .. cmax, pivot)

\* The row interchanges ipiv[k1 .. k2] applied in that order over cols.
RECURSIVE laswp(_, _, _, _, _)
laswp(A, cols, k1, k2, ipiv) ==
    IF k1 > k2 THEN A
    ELSE laswp(SwapRows(A, k1, ipiv[k1], cols), cols, k1 + 1, k2, ipiv)

\* The same interchanges undone: applied from k2 back to k1.
RECURSIVE laswp_back(_, _, _, _, _)
laswp_back(A, cols, k1, k2, ipiv) ==
    IF k1 > k2 THEN A
    ELSE laswp_back(SwapRows(A, k2, ipiv[k2], cols), cols, k1, k2 - 1, ipiv)

\* sum over k in K of L[i][k] * R[k][c], taken off x
RECURSIVE SubDot(_, _, _, _, _, _)
SubDot(x, L, R, i, c, K) ==
    IF K = {} THEN x
    ELSE LET k == CHOOSE k \in K : \A l \in K : k <= l
         IN  SubDot(QSub(x, QMul(L[i][k], R[k][c])), L, R, i, c, K \ {k})

\* Triangular solve with the unit lower triangle of the panel at r0: the
\* block of rows r0 .. r0 + jb - 1 over the columns cols, row after row.
RECURSIVE trsm_lower(_, _, _, _, _)
trsm_lower(A, r0, jb, i, cols) ==
    IF i > r0 + jb - 1 THEN A
    ELSE trsm_lower(
             [A EXCEPT ![i] = [c \in DOMAIN A[i] |->
                 IF c \in cols
                 THEN SubDot(A[i][c], A, A, i, c, r0 .. i - 1)
                 ELSE A[i][c]]],
             r0, jb, i + 1, cols)

\* Trailing update: the rows below the panel have the product of the panel's
\* lower block and the solved upper block taken off over the columns cols.
gemm(A, r0, jb, cols) ==
    [i \in DOMAIN A |->
       [c \in DOMAIN A[i] |->
          IF i > r0 + jb - 1 /\ c \in cols
          THEN SubDot(A[i][c], A, A, i, c, r0 .. r0 + jb - 1)
          ELSE A[i][c]]]

Min(a, b) == IF a <= b THEN a ELSE b

\* A step of the factorization of the panel at column j, jb columns wide.
Panel(k, j, jb) == [k |-> k, j |-> j, jb |-> jb]

\* The steps of the panel at column j and of the panels after it, block
\* width nb: base case on the panel, its interchanges applied to the columns
\* left and right of it, then the trailing update (triangular solve for the
\* block row, product taken off the rest).
RECURSIVE getrf_panels(_, _, _, _, _)
getrf_panels(m, n, nb, pivot, j) ==
    IF j > Min(m, n) THEN <<>>
    ELSE LET jb == Min(Min(m, n) - j + 1, nb)
         IN  <<Panel("getf2", j, jb)>>
             \o (IF pivot /\ j > 1 THEN <<Panel("laswp_left", j, jb)>>
                 ELSE <<>>)
             \o (IF pivot /\ j + jb <= n THEN <<Panel("laswp_right", j, jb)>>
                 ELSE <<>>)
             \o (IF j + jb <= n THEN <<Panel("trsm", j, jb)>> ELSE <<>>)
             \o (IF j + jb <= n /\ j + jb <= m THEN <<Panel("gemm", j, jb)>>
                 ELSE <<>>)
             \o getrf_panels(m, n, nb, pivot, j + jb)

\* The interchanges of a panel not applied to the columns left of it.
getrf_blocked_no_left_swaps(m, n, nb, pivot) ==
    <<Panel("reset_info", 0, 0)>>
    \o SelectSeq(getrf_panels(m, n, nb, pivot, 1),
                 LAMBDA op : op.k # "laswp_left")

\* The block row of a panel solved before the panel's interchanges have been
\* applied to the columns right of it.
getrf_blocked_update_first(m, n, nb, pivot) ==
    LET ops == getrf_panels(m, n, nb, pivot, 1)
    IN  <<Panel("reset_info", 0, 0)>>
        \o [i \in 1 .. Len(ops) |->
              IF ops[i].k = "laswp_right" THEN ops[i + 1]
              ELSE IF ops[i].k = "trsm" /\ i > 1 /\ ops[i - 1].k = "laswp_right"
              THEN ops[i - 1]
              ELSE ops[i]]

\* The panel-blocked factorizer: info reset first, then the panels from the
\* left.
getrf_blocked(m, n, nb, pivot) ==
    <<Panel("reset_info", 0, 0)>> \o getrf_panels(m, n, nb, pivot, 1)

\* The pivots of a panel recorded as the base case gives them, relative to
\* the panel.
FactorKernel_panel_relative_pivots(op, s, m, n, pivot) ==
    LET last == op.j + op.jb - 1
    IN
    CASE op.k = "reset_info" -> [s EXCEPT !.info = 0]
      [] op.k = "getf2" ->
            LET f == rocsolver_getf2(s.A, op.j, op.jb, m, last, pivot)
            IN  [A |-> f.A,
                 ipiv |-> IF pivot
                          THEN [i \in DOMAIN s.ipiv |->
                                  IF i \in op.j .. last
                                  THEN f.piv[i - op.j + 1]
                                  ELSE s.ipiv[i]]
                          ELSE s.ipiv,
                 info |-> IF s.info = 0 /\ f.info > 0
                          THEN f.info + op.j - 1 ELSE s.info]
      [] op.k = "laswp_left" ->
            [s EXCEPT !.A = laswp(s.A, 1 .. op.j - 1, op.j, last, s.ipiv)]
      [] op.k = "laswp_right" ->
            [s EXCEPT !.A = laswp(s.A, last + 1 .. n, op.j, last, s.ipiv)]
      [] op.k = "trsm" ->
            [s EXCEPT !.A = trsm_lower(s.A, op.j, op.jb, op.j, last + 1 .. n)]
      [] op.k = "gemm" ->
            [s EXCEPT !.A = gemm(s.A, op.j, op.jb, last + 1 .. n)]

\* What a step makes of the matrix, pivot vector and info in s.
FactorKernel(op, s, m, n, pivot) ==
    LET last == op.j + op.jb - 1
    IN
    CASE op.k = "reset_info" -> [s EXCEPT !.info = 0]
      [] op.k = "getf2" ->
            LET f == rocsolver_getf2(s.A, op.j, op.jb, m, last, pivot)
            IN  [A |-> f.A,
                 ipiv |-> IF pivot
                          THEN [i \in DOMAIN s.ipiv |->
                                  IF i \in op.j .. last
                                  THEN f.piv[i - op.j + 1] + op.j - 1
                                  ELSE s.ipiv[i]]
                          ELSE s.ipiv,
                 info |-> IF s.info = 0 /\ f.info > 0
                          THEN f.info + op.j - 1 ELSE s.info]
      [] op.k = "laswp_left" ->
            [s EXCEPT !.A = laswp(s.A, 1 .. op.j - 1, op.j, last, s.ipiv)]
      [] op.k = "laswp_right" ->
            [s EXCEPT !.A = laswp(s.A, last + 1 .. n, op.j, last, s.ipiv)]
      [] op.k = "trsm" ->
            [s EXCEPT !.A = trsm_lower(s.A, op.j, op.jb, op.j, last + 1 .. n)]
      [] op.k = "gemm" ->
            [s EXCEPT !.A = gemm(s.A, op.j, op.jb, last + 1 .. n)]

\* The inputs: every matrix of a small shape over a few entries, among them
\* zero, entries of equal magnitude and of opposite sign.
FactorShapes == {<<2, 2>>, <<2, 3>>, <<3, 2>>, <<3, 3>>}
FactorEntries(m, n) == IF m * n > 6 THEN {0, 1} ELSE {0, 1, -2}
BlockWidths == {1, 2, 3}
Matrices(m, n, E) == [1 .. m -> [1 .. n -> {<<e, 1>> : e \in E}]]

InitFactor ==
    /\ handle \in {h \in HandleStates : h.kind = "exec" /\ h.cap > 0}
    /\ have64 = TRUE
    /\ \E sh \in FactorShapes, nb \in BlockWidths, pivot \in BOOLEAN :
         \E A \in Matrices(sh[1], sh[2], FactorEntries(sh[1], sh[2])) :
            /\ call = [ep |-> "getrf_blocked", m |-> sh[1], n |-> sh[2],
                       nb |-> nb, pivot |-> pivot, A |-> A]
            /\ mem = [A |-> A,
                      ipiv |-> [i \in 1 .. Min(sh[1], sh[2]) |-> 0],
                      info |-> -1]
    /\ result = NoResult
    /\ stream = <<>>
    /\ rd = {}
    /\ wr = {}

\* The host issues the steps of the whole factorization onto the stream.
Factor_getrf ==
    /\ call.ep = "getrf_blocked"
    /\ result = NoResult
    /\ LET ops == getrf_blocked(call.m, call.n, call.nb, call.pivot)
       IN  /\ result' = Return(rocblas_status_success, <<>>, <<>>, <<>>, ops)
           /\ stream' = ops
    /\ UNCHANGED <<handle, have64, call, mem, rd, wr>>

\* The device runs the step at the head of the stream; the log of the call
\* records the steps in the order they completed.
FactorStep ==
    /\ call.ep = "getrf_blocked"
    /\ stream # <<>>
    /\ mem' = FactorKernel(Head(stream), mem, call.m, call.n, call.pivot)
    /\ result' = [result EXCEPT !.log = Append(@, Head(stream))]
    /\ stream' = Tail(stream)
    /\ UNCHANGED <<handle, have64, call, rd, wr>>

NextFactor == Factor_getrf \/ FactorStep

SpecFactor == InitFactor /\ [][NextFactor]_vars

\* --------------------------------------------------- the solve in numbers
Transpose(F) == [i \in DOMAIN F[1] |-> [c \in DOMAIN F |-> F[c][i]]]

\* Triangular solve in place on B with a triangle of F, row i and the rows
\* after it in the order of the substitution: forward (from the first row,
\* lower triangle) or backward (from the last row, upper triangle), with a
\* unit diagonal or dividing by the diagonal of F.
RECURSIVE trsm(_, _, _, _, _)
trsm(F, B, i, fwd, unit) ==
    IF i < 1 \/ i > Len(B) THEN B
    ELSE LET K == IF fwd THEN 1 .. i - 1 ELSE i + 1 .. Len(B)
             row == [c \in DOMAIN B[i] |->
                       LET x == SubDot(B[i][c], F, B, i, c, K)
                       IN  IF unit THEN x ELSE QDiv(x, F[i][i])]
         IN  trsm(F, [B EXCEPT ![i] = row], IF fwd THEN i + 1 ELSE i - 1,
                  fwd, unit)

\* The interchanges of the transposed solve applied in forward order.
getrs_steps_forward_unpermute(trans) ==
    IF trans = rocblas_operation_none
    THEN <<"laswp", "trsm_L", "trsm_U">>
    ELSE <<"trsm_UT", "trsm_LT", "laswp">>

\* The steps of the solver.  Operation none: the rows of B interchanged as
\* the pivot vector says, in forward order, then the solve with the unit
\* lower factor, then with the upper factor.  Transpose: the solve with the
\* transposed upper factor, then with the transposed lower factor, then the
\* interchanges undone in reverse order.
getrs_steps(trans) ==
    IF trans = rocblas_operation_none
    THEN <<"laswp", "trsm_L", "trsm_U">>
    ELSE <<"trsm_UT", "trsm_LT", "laswp_back">>

\* What a step of the solver makes of the right-hand sides in s.B.
SolveKernel(op, s) ==
    LET n == Len(s.B)
        cols == DOMAIN s.B[1]
    IN  [s EXCEPT !.B =
           CASE op = "laswp" -> laswp(s.B, cols, 1, n, s.ipiv)
             [] op = "laswp_back" -> laswp_back(s.B, cols, 1, n, s.ipiv)
             [] op = "trsm_L" -> trsm(s.A, s.B, 1, TRUE, TRUE)
             [] op = "trsm_U" -> trsm(s.A, s.B, n, FALSE, FALSE)
             [] op = "trsm_UT" -> trsm(Transpose(s.A), s.B, 1, TRUE, FALSE)
             [] op = "trsm_LT" -> trsm(Transpose(s.A), s.B, n, FALSE, TRUE)]

\* The factorization run to completion.
RECURSIVE RunFactor(_, _, _, _, _)
RunFactor(ops, s, m, n, pivot) ==
    IF ops = <<>> THEN s
    ELSE RunFactor(Tail(ops), FactorKernel(Head(ops), s, m, n, pivot), m, n,
                   pivot)

\* n and nrhs of the systems solved
SolveShapes == {<<2, 1>>, <<2, 2>>, <<3, 1>>}

InitSolve ==
    /\ handle \in {h \in HandleStates : h.kind = "exec" /\ h.cap > 0}
    /\ have64 = TRUE
    /\ \E sh \in SolveShapes, nb \in BlockWidths,
          trans \in {rocblas_operation_none, rocblas_operation_transpose} :
         \E A \in Matrices(sh[1], sh[1], FactorEntries(sh[1], sh[1])),
            B \in Matrices(sh[1], sh[2], FactorEntries(sh[1], sh[1])) :
            /\ call = [ep |-> "getrf_getrs", n |-> sh[1], nrhs |-> sh[2],
                       nb |-> nb, trans |-> trans, A |-> A, B |-> B]
            /\ mem = [A |-> A, ipiv |-> [i \in 1 .. sh[1] |-> 0],
                      info |-> -1, B |-> B]
    /\ result = NoResult
    /\ stream = <<>>
    /\ rd = {}
    /\ wr = {}

\* getrf, pivoted, run to completion on A.
Solve_getrf ==
    /\ call.ep = "getrf_getrs"
    /\ result = NoResult
    /\ LET f == RunFactor(getrf_blocked(call.n, call.n, call.nb, TRUE),
                          [A |-> mem.A, ipiv |-> mem.ipiv, info |-> mem.info],
                          call.n, call.n, TRUE)
       IN  mem' = [mem EXCEPT !.A = f.A, !.ipiv = f.ipiv, !.info = f.info]
    /\ result' = Return(rocblas_status_success, <<"getrf">>, <<>>, <<>>, <<>>)
    /\ UNCHANGED <<handle, have64, call, stream, rd, wr>>

\* getrs issues its steps; it does not look at info.
Solve_getrs ==
    /\ call.ep = "getrf_getrs"
    /\ result.log = <<"getrf">>
    /\ result' = [result EXCEPT !.log = Append(@, "getrs"),
                                !.ops = getrs_steps(call.trans)]
    /\ stream' = getrs_steps(call.trans)
    /\ UNCHANGED <<handle, have64, call, mem, rd, wr>>

SolveStep ==
    /\ call.ep = "getrf_getrs"
    /\ stream # <<>>
    /\ mem' = SolveKernel(Head(stream), mem)
    /\ result' = [result EXCEPT !.log = Append(@, Head(stream))]
    /\ stream' = Tail(stream)
    /\ UNCHANGED <<handle, have64, call, rd, wr>>

NextSolve == Solve_getrf \/ Solve_getrs \/ SolveStep

SpecSolve == InitSolve /\ [][NextSolve]_vars

\* ------------------------------------------------------------------ claims
Called == call # NoCall
Drained == Called /\ stream = <<>>
IsGesv == Called /\ call.ep = "sgesv_outofplace"
\* the call went on to its template (validation, sizing and allocation passed)
Executed == Called /\ result.log # <<>> /\ result.log[Len(result.log)] = "template"

\* C1: during and after any gesv_outofplace call, whatever status it returns,
\* every instance of the caller's B holds the value it had before the call;
\* the kernels of the call write no caller buffer other than X, A, ipiv and
\* info.
C1_BPreserved ==
    IsGesv =>
        /\ mem["B"] = InitialMem["B"]
        /\ "B" \notin wr
        /\ wr \cap CallerBufs \subseteq {"X", "A", "ipiv", "info"}

\* a gesv call that factored, copied and solved two instances has completed
C1_Witness ==
    /\ IsGesv /\ Drained /\ Executed
    /\ call.batch_count = MaxBatch
    /\ {"A", "X"} \subseteq wr /\ "B" \in rd
    /\ \A i \in Instances : mem["X"][i] # InitialMem["X"][i]

\* the kernels a call issued on behalf of its template (the scalar
\* initialisation of the entry point comes first and is not one of them)
TemplateOps ==
    IF result.ops # <<>> /\ Head(result.ops).k = "init_scalars"
    THEN Tail(result.ops) ELSE result.ops

IsSuffix(s, t) == \E k \in 0 .. Len(t) : s = SubSeq(t, k + 1, Len(t))

\* C2: a gesv_outofplace call with n, nrhs, batch_count > 0 issues, on the one
\* stream, reset of info, pivoted factorization of A (which starts with the
\* info reset of its own), copy of B to X, and the
\* solve (operation none) in place on X, in that order; the device runs them
\* in issue order, so the copy has not run before the factorization has and
\* has run before the solve, and the X the solve leaves is computed from the
\* factors and pivots the factorization wrote and from the copy of B.
C2_Order ==
    (IsGesv /\ Executed /\ call.n > 0 /\ call.nrhs > 0 /\ call.batch_count > 0) =>
        /\ TemplateOps =
              << reset_info(call.batch_count),
                 reset_info(call.batch_count),
                 Kernel("getrf", call.batch_count, "pivot", "A", "A"),
                 copy_mat(call.batch_count, "B", "X"),
                 Kernel("getrs", call.batch_count, rocblas_operation_none, "A", "X") >>
        /\ IsSuffix(stream, result.ops)
        /\ \A i \in 1 .. call.batch_count :
              LET left == Len(stream)
                  lu == <<"LU">> \o InitialMem["A"][i]
                  piv == <<"PIV">> \o InitialMem["A"][i]
              IN  /\ mem["A"][i] = IF left <= 2 THEN lu ELSE InitialMem["A"][i]
                  /\ mem["ipiv"][i] = IF left <= 2 THEN piv
                                      ELSE InitialMem["ipiv"][i]
                  /\ mem["X"][i] =
                        IF left = 0
                        THEN <<"getrs", rocblas_operation_none>> \o lu \o piv
                             \o InitialMem["B"][i]
                        ELSE IF left = 1 THEN InitialMem["B"][i]
                        ELSE InitialMem["X"][i]

\* the kernels of a two-instance gesv call have all run
C2_Witness ==
    /\ IsGesv /\ Drained /\ Executed
    /\ call.n > 0 /\ call.nrhs > 0 /\ call.batch_count = MaxBatch
    /\ Len(TemplateOps) = 5
    /\ mem["info"][MaxBatch] = <<1>>


Is64 == Called /\ call.ep \in {"sgetrf_64", "sgetrf_npvt_64",
                               "sgetrs_strided_batched_64"}
\* nothing was issued and the device has touched nothing
NoDeviceWork ==
    /\ result.ops = <<>> /\ stream = <<>>
    /\ mem = InitialMem /\ rd = {} /\ wr = {}

\* C3 as stated: every entry point called with a null handle returns
\* invalid_handle, having done nothing but look at the handle.
C3_NullHandleEverywhere ==
    (Called /\ handle.kind = "null") =>
        result = Return(rocblas_status_invalid_handle, <<"handle">>,
                        <<>>, <<>>, <<>>)

\* C3 amended: an entry point called with a null handle returns
\* invalid_handle before any validation, sizing, allocation or execution,
\* except the 64-bit index forms in a build without HAVE_ROCBLAS_64, which
\* return not_implemented without looking at the handle.
C3_NullHandle ==
    (Called /\ handle.kind = "null") =>
        /\ NoDeviceWork
        /\ IF Is64 /\ ~have64
           THEN result = NotImplemented
           ELSE result = Return(rocblas_status_invalid_handle, <<"handle">>,
                                <<>>, <<>>, <<>>)

\* a 64-bit form called with a null handle, a negative size and null pointers
C3_Witness ==
    /\ Called /\ handle.kind = "null" /\ Is64 /\ have64
    /\ call.n < 0 /\ call.nul # {}
    /\ result.status = rocblas_status_invalid_handle

\* the validation of gesv_outofplace has been applied to the arguments in call
Validated == call.ep = "gesv_outofplace_argCheck" /\ result # NoResult
SizeInvalid ==
    \/ call.n < 0 \/ call.nrhs < 0 \/ call.lda < call.n \/ call.ldb < call.n
    \/ call.ldx < call.n \/ call.batch_count < 0

\* C4: the validation of gesv_outofplace returns invalid_size whenever a size
\* condition is violated, whichever pointers are null and whether or not the
\* handle is in memory-size-query mode.
C4_SizeBeforePointers ==
    (Validated /\ SizeInvalid) => result.status = rocblas_status_invalid_size

\* a size and every pointer condition violated at once, outside a size query
C4_Witness ==
    /\ Validated /\ handle.kind = "exec"
    /\ call.n > 0 /\ call.nrhs > 0 /\ call.batch_count > 0 /\ call.ldb < call.n
    /\ call.nul = {"A", "B", "X", "ipiv", "info"}
    /\ result.status = rocblas_status_invalid_size

\* C5: during a memory-size query with valid sizes the validation of
\* gesv_outofplace returns continue, whichever pointers are null.
C5_QuerySkipsPointers ==
    (Validated /\ handle.kind = "query" /\ ~SizeInvalid) =>
        result.status = rocblas_status_continue

\* a size query with a non-empty problem and every pointer null
C5_Witness ==
    /\ Validated /\ handle.kind = "query"
    /\ call.n > 0 /\ call.nrhs > 0 /\ call.batch_count > 0
    /\ call.nul = {"A", "B", "X", "ipiv", "info"}
    /\ result.status = rocblas_status_continue

\* C6: outside a memory-size query and with valid sizes the validation of
\* gesv_outofplace returns invalid_pointer exactly when A or ipiv is null
\* with n > 0, or B or X is null with n > 0 and nrhs > 0, or info is null
\* with batch_count > 0, and continue otherwise.
C6_PointerExactly ==
    (Validated /\ handle.kind = "exec" /\ ~SizeInvalid) =>
        result.status =
            IF \/ (call.n > 0 /\ "A" \in call.nul)
               \/ (call.n > 0 /\ "ipiv" \in call.nul)
               \/ (call.n > 0 /\ call.nrhs > 0 /\ "B" \in call.nul)
               \/ (call.n > 0 /\ call.nrhs > 0 /\ "X" \in call.nul)
               \/ (call.batch_count > 0 /\ "info" \in call.nul)
            THEN rocblas_status_invalid_pointer
            ELSE rocblas_status_continue


\* the entry point went past its argument validation
PassedValidation == Called /\ Len(result.log) > 2
QueryLog == <<"handle", "argCheck", "getMemorySize", "set_optimal">>

\* the sizes the planner of the called entry point gives for the arguments
PlannedSizes ==
    LET pivot == call.ep \notin {"sgetrf_npvt", "sgetrf_npvt_64", "sgetri_npvt",
                                 "sgetri_npvt_outofplace_strided_batched"}
    IN
    CASE call.ep \in {"sgetrf", "sgetrf_64", "sgetrf_npvt", "sgetrf_npvt_64"} ->
            NineSizes(rocsolver_getrf_getMemorySize(call.m, call.n, pivot, 1))
      [] call.ep \in {"sgetrs_strided_batched", "sgetrs_strided_batched_64"} ->
            FourSizes(rocsolver_getrs_getMemorySize(
                          call.trans, call.n, call.nrhs, call.batch_count))
      [] call.ep \in {"sgetri", "sgetri_npvt"} ->
            LET d == rocsolver_getri_getMemorySize(call.n, 1)
            IN  FourSizes(d) \o <<d.size_pivotval, d.size_pivotidx>>
      [] call.ep \in {"sgetri_outofplace_strided_batched",
                      "sgetri_npvt_outofplace_strided_batched"} ->
            FourSizes(rocsolver_getri_outofplace_getMemorySize(
                          call.n, call.batch_count))
      [] call.ep = "sgesv_outofplace" ->
            NineSizes(rocsolver_gesv_outofplace_getMemorySize(
                          call.n, call.nrhs, call.batch_count))

\* C7: on a handle in memory-size-query mode an entry point that passes its
\* argument validation computes the workspace sizes, reports them to the
\* handle and returns: it asks the allocator for nothing, issues no kernel,
\* and no caller buffer is read or written.
C7_QueryOnlyReports ==
    (PassedValidation /\ handle.kind = "query") =>
        /\ result.log = QueryLog
        /\ result.reported = PlannedSizes
        /\ handle.qsize = SumSeq(PlannedSizes)
        /\ result.requested = <<>>
        /\ NoDeviceWork

\* a size query for a non-empty problem, made with every pointer null, has
\* reported a non-zero size
C7_Witness ==
    /\ PassedValidation /\ handle.kind = "query"
    /\ call.ep = "sgetri" /\ call.n > 0
    /\ call.nul = {"A", "ipiv", "info"}
    /\ handle.qsize > 0

IsGetrf == Called /\ call.ep \in {"sgetrf", "sgetrf_64", "sgetrf_npvt",
                                   "sgetrf_npvt_64"}

\* C8 as stated: on a handle in memory-size-query mode the getrf entry point
\* (its arguments valid) returns the continue status.
C8_QueryReturnsContinue ==
    (IsGetrf /\ PassedValidation /\ handle.kind = "query") =>
        result.status = rocblas_status_continue

\* C8 amended: on a handle in memory-size-query mode the getrf entry point
\* returns before any allocation or execution; continue is the result of its
\* argument validation only, and the status it returns is the one reporting
\* the sizes to the handle gives (size_increased or size_unchanged), or
\* invalid_size when a size is invalid, or not_implemented for a 64-bit form
\* in a build without HAVE_ROCBLAS_64.
C8_QueryShortCircuits ==
    (IsGetrf /\ handle.kind = "query") =>
        /\ result.requested = <<>>
        /\ NoDeviceWork
        /\ result.status # rocblas_status_continue
        /\ IF Is64 /\ ~have64 THEN result = NotImplemented
           ELSE IF call.m < 0 \/ call.n < 0 \/ call.lda < call.m
           THEN result.status = rocblas_status_invalid_size
           ELSE /\ result.log = QueryLog
                /\ result.reported = PlannedSizes
                /\ result.status \in {rocblas_status_size_increased,
                                      rocblas_status_size_unchanged}

\* a size query of getrf for a non-empty matrix has reported its sizes
C8_Witness ==
    /\ IsGetrf /\ handle.kind = "query" /\ call.ep = "sgetrf"
    /\ call.m > 0 /\ call.n > 0
    /\ result.log = QueryLog
    /\ result.status = rocblas_status_size_increased

\* C9: no entry point returns the continue sentinel: whichever path the call
\* takes, the status handed to the caller differs from continue.
C9_ContinueNeverReturned ==
    Called => result.status # rocblas_status_continue

\* a call whose validation answered continue went on to execute and returned
\* success
C9_Witness ==
    /\ Executed /\ Drained
    /\ call.ep = "sgetrs_strided_batched"
    /\ call.n > 0 /\ call.nrhs > 0 /\ call.batch_count > 0
    /\ "B" \in wr
    /\ result.status = rocblas_status_success

\* C10: when an entry point returns invalid_handle, invalid_size,
\* invalid_pointer or memory_error it has issued no kernel and no caller
\* buffer is read or modified; memory_error is returned right after the
\* allocation request, before the scalar initialisation and the template.
C10_ErrorsBeforeDeviceWork ==
    (Called /\ result.status \in {rocblas_status_invalid_handle,
                                  rocblas_status_invalid_size,
                                  rocblas_status_invalid_pointer,
                                  rocblas_status_memory_error}) =>
        /\ NoDeviceWork
        /\ result.reported = <<>>
        /\ \A k \in 1 .. Len(result.log) : result.log[k] # "template"
        /\ result.status = rocblas_status_memory_error =>
              /\ result.log = <<"handle", "argCheck", "getMemorySize", "malloc">>
              /\ result.requested = PlannedSizes
        /\ result.status # rocblas_status_memory_error =>
              result.requested = <<>>

\* an out-of-place inversion of a non-empty batch failed to get its workspace
C10_Witness ==
    /\ Called /\ call.ep = "sgetri_outofplace_strided_batched"
    /\ call.n > 0 /\ call.batch_count = MaxBatch
    /\ result.status = rocblas_status_memory_error
    /\ SumSeq(result.requested) > 0


\* the arguments of a gesv_outofplace call are valid: sizes consistent and
\* every pointer the problem needs non-null
ValidGesvArgs ==
    /\ ~SizeInvalid
    /\ call.n > 0 => {"A", "ipiv"} \cap call.nul = {}
    /\ (call.n > 0 /\ call.nrhs > 0) => {"B", "X"} \cap call.nul = {}
    /\ call.batch_count > 0 => "info" \notin call.nul
\* instance i of X holds the solution computed from the factors and pivots of
\* A and from the caller's B
Solved(i) ==
    mem["X"][i] = <<"getrs", rocblas_operation_none>>
                  \o (<<"LU">> \o InitialMem["A"][i])
                  \o (<<"PIV">> \o InitialMem["A"][i])
                  \o InitialMem["B"][i]
\* info of instance i holds a value the call wrote: 0 or the column of a
\* zero pivot
InfoSet(i) == mem["info"][i] \in {<<c>> : c \in PivotCols(call.n, call.n)}

\* C11: a gesv_outofplace call with batch_count > 0 and n = 0 or nrhs = 0
\* that reaches execution returns success and issues the info reset and
\* nothing else (no factorization, copy or solve, also when n > 0 and
\* nrhs = 0): A, ipiv, B and X are neither read nor written, and once the
\* stream has drained info is 0 for every instance of the batch.
C11_EmptyProblem ==
    (IsGesv /\ Executed /\ call.batch_count > 0
     /\ (call.n = 0 \/ call.nrhs = 0)) =>
        /\ result.status = rocblas_status_success
        /\ result.ops = <<reset_info(call.batch_count)>>
        /\ rd = {} /\ wr \subseteq {"info"}
        /\ \A b \in {"A", "ipiv", "B", "X"} : mem[b] = InitialMem[b]
        /\ Drained => \A i \in 1 .. call.batch_count : mem["info"][i] = <<0>>

\* a call with a non-empty matrix and no right-hand side has reset the info
\* of a full batch
C11_Witness ==
    /\ IsGesv /\ Executed /\ Drained
    /\ call.n > 0 /\ call.nrhs = 0 /\ call.batch_count = MaxBatch
    /\ wr = {"info"}
    /\ \A i \in Instances : mem["info"][i] = <<0>>

\* C12: a gesv_outofplace call with batch_count = 0 launches no kernel, not
\* even the info reset, and neither reads nor writes A, B, X, ipiv or info;
\* made with valid arguments (any n >= 0 and nrhs >= 0) on an executing
\* handle it returns success.
C12_EmptyBatch ==
    (IsGesv /\ call.batch_count = 0) =>
        /\ NoDeviceWork
        /\ (handle.kind = "exec" /\ ValidGesvArgs) =>
              /\ Executed
              /\ result.status = rocblas_status_success

\* a call with a non-empty matrix and right-hand side, an empty batch and a
\* null info has returned success
C12_Witness ==
    /\ IsGesv /\ Executed /\ call.batch_count = 0
    /\ call.n > 0 /\ call.nrhs > 0 /\ call.nul = {"info"}
    /\ result.status = rocblas_status_success

\* C13: in a gesv_outofplace call that executes with batch_count > 0 (it
\* returns success) the first kernel of the template is the reset of all
\* batch_count entries of info, so no kernel reads or writes info before it;
\* from the moment info is written, and so at the end of the call, info of
\* every instance is 0 or the column of a zero pivot, a value in which the
\* contents info had before the call do not occur.
C13_InfoIndependent ==
    (IsGesv /\ Executed /\ call.batch_count > 0) =>
        /\ result.status = rocblas_status_success
        /\ TemplateOps # <<>>
        /\ Head(TemplateOps) = reset_info(call.batch_count)
        /\ \A j \in 1 .. Len(result.ops) :
              "info" \in Reads(result.ops[j]) \cup Writes(result.ops[j]) =>
                  \E r \in 1 .. j : result.ops[r] = reset_info(call.batch_count)
        /\ \A i \in 1 .. call.batch_count :
              IF "info" \in wr THEN InfoSet(i)
              ELSE mem["info"][i] = InitialMem["info"][i]
        /\ Drained => "info" \in wr

\* a full batch whose info was stale has been factored and solved: one
\* instance ends with info 0, the other with the column of its zero pivot
C13_Witness ==
    /\ IsGesv /\ Executed /\ Drained /\ call.batch_count = MaxBatch
    /\ call.n > 0 /\ call.nrhs > 0
    /\ mem["info"][1] = <<0>> /\ mem["info"][MaxBatch] = <<1>>
    /\ Len(TemplateOps) = 5

\* the factorization of a gesv call with a non-empty problem has run: at most
\* the copy and the solve are left on the stream
Factored == Len(stream) <= 2

\* C14: a gesv_outofplace call that executes returns success whatever the
\* factorization finds; once the factorization has run, info of an instance
\* with a zero pivot holds its column k > 0 and no later kernel of the call
\* changes info; every instance of the batch is factored and, when the
\* stream has drained, solved, whatever info the other instances hold.
C14_SingularNotAnError ==
    /\ [](  (IsGesv /\ Executed /\ call.n > 0 /\ call.nrhs > 0
             /\ call.batch_count > 0) =>
               /\ result.status = rocblas_status_success
               /\ \A i \in 1 .. call.batch_count :
                     /\ Factored =>
                           /\ InfoSet(i)
                           /\ mem["A"][i] = <<"LU">> \o InitialMem["A"][i]
                     /\ Drained => Solved(i))
    /\ [][ (IsGesv /\ Executed /\ call.n > 0 /\ call.nrhs > 0 /\ Factored) =>
               mem'["info"] = mem["info"] ]_vars

\* a batch with one singular and one nonsingular instance has completed: the
\* singular one kept its info, the other was solved
C14_Witness ==
    /\ IsGesv /\ Executed /\ Drained /\ call.batch_count = MaxBatch
    /\ call.n > 0 /\ call.nrhs > 0
    /\ result.status = rocblas_status_success
    /\ mem["info"][1] = <<1>> /\ mem["info"][MaxBatch] = <<0>>
    /\ Solved(1) /\ Solved(MaxBatch)

\* C15: in a gesv_outofplace call with n, nrhs, batch_count > 0 the copy of
\* B into X and the solve on X are the last two kernels issued, each over the
\* whole batch, and no kernel issued after the factorization reads info; so
\* for an instance whose factorization reported info > 0, X holds the copy of
\* B once the copy has run and the result of the solve once the stream has
\* drained: it is overwritten, not left as the caller passed it.
C15_SolveUnconditional ==
    (IsGesv /\ Executed /\ call.n > 0 /\ call.nrhs > 0
     /\ call.batch_count > 0) =>
        LET ops == result.ops
            last == Len(ops)
        IN  /\ last >= 2
            /\ ops[last - 1] = copy_mat(call.batch_count, "B", "X")
            /\ ops[last] = Kernel("getrs", call.batch_count,
                                  rocblas_operation_none, "A", "X")
            /\ "info" \notin Reads(ops[last - 1]) \cup Reads(ops[last])
            /\ \A i \in 1 .. call.batch_count :
                  (Factored /\ InfoSet(i) /\ mem["info"][i] # <<0>>) =>
                      /\ Len(stream) = 1 => mem["X"][i] = InitialMem["B"][i]
                      /\ Drained => Solved(i) /\ mem["X"][i] # InitialMem["X"][i]

\* a batch in which every instance is singular has been copied and solved
C15_Witness ==
    /\ IsGesv /\ Executed /\ Drained /\ call.batch_count = MaxBatch
    /\ call.n > 0 /\ call.nrhs > 0
    /\ \A i \in Instances : mem["info"][i] = <<1>> /\ Solved(i)


\* the template of gesv_outofplace has been applied to the problem in call
TemplateRan == call.ep = "gesv_outofplace_template" /\ result # NoResult

Planned == call.ep = "gesv_outofplace_getMemorySize" /\ result # NoResult
Roles == {"size_scalars", "size_work1", "size_work2", "size_work3",
          "size_work4", "size_pivotval", "size_pivotidx", "size_iipiv",
          "size_iinfo"}

\* C17: the planner of gesv_outofplace gives 0 for each of the nine sizes and
\* optim_mem = true whenever n = 0 or nrhs = 0 or batch_count = 0, whatever
\* the planners of the factorizer and of the solver would answer for that
\* shape.
C17_QuickReturn ==
    (Planned /\ (call.n = 0 \/ call.nrhs = 0 \/ call.batch_count = 0)) =>
        /\ \A r \in Roles : result[r] = 0
        /\ result.optim_mem = TRUE

\* a matrix without right-hand sides, for which the planner of the
\* factorizer asks for workspace and reports no optimal memory, was planned
C17_Witness ==
    /\ Planned /\ call.n > 0 /\ call.nrhs = 0 /\ call.batch_count = MaxBatch
    /\ PlannerGetrf.size_work1 > 0 /\ ~PlannerGetrf.optim_mem
    /\ result.size_work1 = 0 /\ result.optim_mem

\* C18: for n, nrhs, batch_count > 0 every size the planner of
\* gesv_outofplace gives is the larger of what the planner of the pivoted
\* n by n factorization and the planner of the solve (operation none, n, nrhs)
\* give for that role (it is at least both and equal to one of them), and
\* optim_mem is true exactly when both report optimal memory.
C18_ElementwiseMax ==
    (Planned /\ call.n > 0 /\ call.nrhs > 0 /\ call.batch_count > 0) =>
        /\ \A r \in Roles :
              /\ result[r] >= PlannerGetrf[r]
              /\ result[r] >= PlannerGetrs[r]
              /\ result[r] \in {PlannerGetrf[r], PlannerGetrs[r]}
        /\ result.optim_mem <=> (PlannerGetrf.optim_mem /\ PlannerGetrs.optim_mem)

\* a shape was planned in which the factorizer decides one scratch size and
\* the solver another, and only one of the two reports optimal memory
C18_Witness ==
    /\ Planned /\ call.n > 0 /\ call.nrhs > 0 /\ call.batch_count = MaxBatch
    /\ PlannerGetrf.size_work1 > PlannerGetrs.size_work1
    /\ PlannerGetrs.size_work2 > PlannerGetrf.size_work2
    /\ result.size_iinfo > 0
    /\ call.opt1 /\ ~call.opt2 /\ ~result.optim_mem

\* C19: an entry point that passes its argument validation runs its planner
\* as its third step, before it looks at the mode of the handle; the sizes
\* are a function of the arguments alone: in memory-size-query mode they are
\* what it reports to the handle, in execute mode they are what it requests
\* from the allocator.
C19_QueryMatchesExecute ==
    PassedValidation =>
        /\ result.log[3] = "getMemorySize"
        /\ Len(result.log) >= 4
        /\ IF handle.kind = "query"
           THEN /\ result.log[4] = "set_optimal"
                /\ result.reported = PlannedSizes
                /\ result.requested = <<>>
           ELSE /\ result.log[4] = "malloc"
                /\ result.requested = PlannedSizes
                /\ result.reported = <<>>

\* a solve over a full batch has requested a non-empty workspace in execute
\* mode and run
C19_Witness ==
    /\ PassedValidation /\ handle.kind = "exec" /\ Executed
    /\ call.ep = "sgetrs_strided_batched"
    /\ call.n > 0 /\ call.nrhs > 0 /\ call.batch_count = MaxBatch
    /\ SumSeq(result.requested) > 0
    /\ result.requested = PlannedSizes

C28_ProductNeverEmpty ==
    (Validated /\ handle.kind = "exec" /\ ~SizeInvalid
     /\ call.n > 0 /\ call.nrhs > 0
     /\ {"B", "X"} \cap call.nul # {}) =>
        result.status = rocblas_status_invalid_pointer


\* the strides of an out-of-place inversion call have reached the template
StridesPassed == result # NoResult

\* C29: the getri_outofplace_strided_batched entry points hand the caller's
\* batch stride of C to the inversion routine unchanged, for every
\* non-negative 64-bit stride, as they do strideA and strideP.
C29_StrideCUnchanged ==
    StridesPassed =>
        /\ result.strideA = call.strideA
        /\ result.strideP = call.strideP
        /\ result.strideC = call.strideC


IsNpvt ==
    Called /\ call.ep \in {"sgetrf_npvt", "sgetrf_npvt_64", "sgetri_npvt",
                           "sgetri_npvt_outofplace_strided_batched"}

\* C30: the non-pivoting entry points (getrf_npvt, getri_npvt,
\* getri_npvt_outofplace_strided_batched) run with a null ipiv and
\* pivot = false: when the other pointers are given, the null ipiv is never
\* reported as invalid_pointer, and no kernel of the call reads or writes
\* the pivot buffer.
C30_NpvtLeavesIpiv ==
    IsNpvt =>
        /\ "ipiv" \in call.nul
        /\ call.nul = {"ipiv"} =>
               result.status # rocblas_status_invalid_pointer
        /\ "ipiv" \notin rd \cup wr
        /\ mem["ipiv"] = InitialMem["ipiv"]

C30_Witness ==
    /\ IsNpvt
    /\ call.nul = {"ipiv"}
    /\ call.n > 0
    /\ Executed
    /\ Drained
    /\ "A" \in wr


WorkRoles == {"size_work1", "size_work2", "size_work3", "size_work4"}

\* C27: for n, nrhs, batch_count > 0 each buffer that gesv_outofplace passes
\* to the factorizer (n by n, pivoted) and to the solver (operation none, n,
\* nrhs) is at least as large as that routine's own planner asks for, and the
\* optim_mem flag passed down is true only if that routine's planner reports
\* true.
C27_WorkspaceSufficient ==
    (Planned /\ call.n > 0 /\ call.nrhs > 0 /\ call.batch_count > 0) =>
        /\ \A r \in Roles : getrf_workspace(result)[r] >= PlannerGetrf[r]
        /\ \A r \in WorkRoles : getrs_workspace(result)[r] >= PlannerGetrs[r]
        /\ getrf_workspace(result).optim_mem => PlannerGetrf.optim_mem
        /\ getrs_workspace(result).optim_mem => PlannerGetrs.optim_mem

\* a shape was planned in which the solver needs more of one work buffer
\* than the factorizer and reports no optimal memory while the factorizer
\* does
C27_Witness ==
    /\ Planned /\ call.n > 0 /\ call.nrhs > 0 /\ call.batch_count > 0
    /\ PlannerGetrs.size_work3 > PlannerGetrf.size_work3
    /\ getrs_workspace(result).size_work3 = PlannerGetrs.size_work3
    /\ PlannerGetrf.optim_mem /\ ~PlannerGetrs.optim_mem
    /\ ~getrf_workspace(result).optim_mem


IsGetri ==
    Called /\ call.ep \in {"sgetri", "sgetri_npvt",
                           "sgetri_outofplace_strided_batched",
                           "sgetri_npvt_outofplace_strided_batched"}
\* the kernels of the factorizer
FactorKernels == {"getrf"}

BatchCalled == Called /\ "col" \in DOMAIN call /\ Executed

\* The buffers of instance i as one record.
InstanceOf(m, i) == [b \in CallerBufs |-> m[b][i]]

\* What a kernel makes of the buffers v of one matrix whose first zero pivot
\* is at column col (0: none).
KernelOn(op, v, col) ==
    [b \in CallerBufs |->
       IF b \notin Writes(op) THEN v[b]
       ELSE IF b = "info"
       THEN (IF op.k = "reset_info" THEN <<0>>
             ELSE IF op.k = "getrf" /\ v["info"] = <<0>> /\ col > 0
             THEN <<col>>
             ELSE v["info"])
       ELSE IF b = "ipiv" THEN <<"PIV">> \o v["A"]
       ELSE IF op.k = "copy_mat" THEN v[op.src]
       ELSE IF op.k = "getrf" THEN <<"LU">> \o v["A"]
       ELSE IF op.k = "getrs"
       THEN <<"getrs", op.opt>> \o v["A"] \o v["ipiv"] \o v[op.dst]
       ELSE v[b]]

RECURSIVE RunOne(_, _, _)
RunOne(ops, v, col) ==
    IF ops = <<>> THEN v
    ELSE RunOne(Tail(ops), KernelOn(Head(ops), v, col), col)

\* The kernels the entry point of the call issues when it is called for a
\* single matrix of the same shape.
SingleOps ==
    CASE call.ep = "sgesv_outofplace" ->
            rocsolver_sgesv_outofplace(handle, call.n, call.nrhs, TRUE,
                                       call.lda, TRUE, TRUE, call.ldb, TRUE,
                                       call.ldx, TRUE, 1, TRUE).ops
      [] call.ep = "sgetrs_strided_batched" ->
            rocsolver_sgetrs_strided_batched(handle, call.trans, call.n,
                                             call.nrhs, TRUE, call.lda, TRUE,
                                             TRUE, call.ldb, 1).ops
      [] call.ep = "sgetrf" ->
            rocsolver_sgetrf(handle, call.m, call.n, TRUE, call.lda, TRUE,
                             TRUE).ops

\* How many kernels of the call instance i has been through.
DoneBy(i) ==
    Len(result.ops) - Len(stream)
    + (IF stream # <<>> /\ i \notin Head(stream).todo THEN 1 ELSE 0)

\* C24: the instances of a batch are independent.  Whatever the order in
\* which the device takes the instances of each kernel of a batched gesv,
\* getrf or getrs call, the A, ipiv, info, B and X of instance i are at every
\* moment what the kernels instance i has been through make of instance i's
\* own inputs, exactly as in a call for that single matrix; an instance
\* outside the batch is not touched; and when the last kernel of the call
\* has completed every instance holds its final values.
C24_InstancesIndependent ==
    BatchCalled =>
        \A i \in Instances :
            /\ i > call.batch_count =>
                   InstanceOf(mem, i) = InstanceOf(InitialMem, i)
            /\ i <= call.batch_count =>
                   /\ DoneBy(i) \in 0 .. Len(SingleOps)
                   /\ InstanceOf(mem, i) =
                          RunOne(SubSeq(SingleOps, 1, DoneBy(i)),
                                 InstanceOf(InitialMem, i), call.col[i])
                   /\ Drained => DoneBy(i) = Len(SingleOps)

\* a gesv call over the largest batch has completed after the device took
\* the instances of the factorization out of order: the last instance was
\* through while the first was not
C24_Witness ==
    /\ BatchCalled /\ call.ep = "sgesv_outofplace"
    /\ call.batch_count = MaxBatch
    /\ call.col[1] # call.col[MaxBatch]
    /\ stream # <<>>
    /\ Head(stream).op.k = "getrf"
    /\ Head(stream).todo = {1}
    /\ mem["info"][MaxBatch] = <<call.col[MaxBatch]>>
    /\ call.col[MaxBatch] > 0
    /\ mem["A"][1] = InitialMem["A"][1]


\* the factorization of the matrix in call has been issued / has completed
FactorIssued == call.ep = "getrf_blocked" /\ result # NoResult
FactorDone == FactorIssued /\ stream = <<>>

QAdd(a, b) == QSub(a, QSub(Zero, b))
RECURSIVE QSum(_, _)
QSum(f, K) ==
    IF K = {} THEN Zero
    ELSE LET k == CHOOSE k \in K : TRUE
         IN  QAdd(f[k], QSum(f, K \ {k}))

\* The product of the unit lower trapezoid and the upper trapezoid packed in
\* the m by n matrix F.
PackedProduct(F, m, n) ==
    [i \in 1 .. m |->
       [c \in 1 .. n |->
          QSum([k \in 1 .. Min(m, n) |->
                  IF k > i \/ k > c THEN Zero
                  ELSE IF k = i THEN F[k][c]
                  ELSE QMul(F[i][k], F[k][c])],
               1 .. Min(m, n))]]

\* C21: after a pivoted getrf every entry of the pivot vector satisfies
\* i <= ipiv[i] <= n in 1-based indexing (n the number of rows, the size of
\* a square problem), and it names the row exchanged with row i: the rows of
\* the input, interchanged by ipiv in order, are the product of the packed
\* factors.
C21_PivotRange ==
    (FactorDone /\ call.pivot) =>
        /\ \A i \in DOMAIN mem.ipiv : i <= mem.ipiv[i] /\ mem.ipiv[i] <= call.m
        /\ laswp(call.A, 1 .. call.n, 1, Min(call.m, call.n), mem.ipiv)
             = PackedProduct(mem.A, call.m, call.n)

\* a square matrix was factored in panels of one column with a row
\* interchange in a panel after the first
C21_Witness ==
    /\ FactorDone /\ call.pivot
    /\ call.m = call.n /\ call.nb = 1
    /\ \E i \in DOMAIN mem.ipiv : i > 1 /\ mem.ipiv[i] > i
    /\ mem.info = 0

\* the steps of the panel at column j among ops
StepsOf(ops, j, kinds) ==
    {i \in 1 .. Len(ops) : ops[i].j = j /\ ops[i].k \in kinds}

\* C25: in the panel-blocked getrf the steps complete in the order they were
\* issued; for every panel the pivot search and the application of the
\* panel's row interchanges to the columns left and right of it have
\* completed before that panel's trailing update starts; and the panels are
\* processed in increasing column order, a panel starting only after the
\* trailing update of the panel before it.
C25_PanelOrder ==
    FactorIssued =>
        LET done == result.log
            all == result.ops
        IN  /\ done \o stream = all
            /\ \A b \in 1 .. Len(all) :
                 all[b].k \in {"trsm", "gemm"} =>
                    \A a \in StepsOf(all, all[b].j,
                                     {"getf2", "laswp_left", "laswp_right"}) :
                        /\ a < b
                        /\ b <= Len(done) + 1 => a <= Len(done)
            /\ \A a \in 1 .. Len(all), b \in 1 .. Len(all) :
                 all[a].j < all[b].j => a < b

\* the trailing update of the first panel has completed after that panel's
\* interchanges, and the second panel is about to start
C25_Witness ==
    /\ FactorIssued /\ call.pivot /\ call.nb = 1
    /\ stream # <<>>
    /\ Head(stream) = Panel("getf2", 2, 1)
    /\ result.log[Len(result.log)] = Panel("gemm", 1, 1)
    /\ \E i \in DOMAIN result.log : result.log[i] = Panel("laswp_right", 1, 1)
    /\ mem.ipiv[1] > 1

\* C26: the panel-blocked factorization is equivalent to the unblocked
\* column-by-column elimination, for every input and every block width >= 1:
\* the same pivot vector, the same info and the same packed L and U.
C26_BlockedIsUnblocked ==
    FactorDone =>
        LET u == rocsolver_getf2(call.A, 1, Min(call.m, call.n), call.m,
                                 call.n, call.pivot)
        IN  /\ mem.A = u.A
            /\ mem.info = u.info
            /\ call.pivot =>
                  \A i \in DOMAIN mem.ipiv : mem.ipiv[i] = u.piv[i]

\* a matrix with more than one panel was factored, rows were interchanged in
\* the last panel, and a zero pivot was met
C26_Witness ==
    /\ FactorDone /\ call.pivot
    /\ call.nb < Min(call.m, call.n)
    /\ mem.ipiv[Min(call.m, call.n)] > Min(call.m, call.n)
    /\ mem.info > 0


\* getrf and then getrs have completed on the system in call
SolveDone ==
    call.ep = "getrf_getrs" /\ stream = <<>> /\ Len(result.log) > 2

\* The determinant of a 2 by 2 or 3 by 3 matrix of integers.
Det(A) ==
    LET a(i, c) == A[i][c][1]
    IN  IF Len(A) = 2
        THEN a(1, 1) * a(2, 2) - a(1, 2) * a(2, 1)
        ELSE a(1, 1) * (a(2, 2) * a(3, 3) - a(2, 3) * a(3, 2))
             - a(1, 2) * (a(2, 1) * a(3, 3) - a(2, 3) * a(3, 1))
             + a(1, 3) * (a(2, 1) * a(3, 2) - a(2, 2) * a(3, 1))

MatMul(A, X) ==
    [i \in DOMAIN A |->
       [c \in DOMAIN X[1] |->
          QSum([k \in DOMAIN X |-> QMul(A[i][k], X[k][c])], DOMAIN X)]]

\* C22: for every nonsingular square A and every B, in exact arithmetic,
\* getrf followed by getrs with op none or transpose leaves in the
\* right-hand-side buffer an X with op(A) * X = B for the original A and B.
\* For none the steps are the forward row permutation, the unit-lower solve
\* and the upper solve; for transpose the upper-transpose solve, the
\* lower-transpose solve and the inverse permutation in reverse order.
C22_SolvesSystem ==
    (SolveDone /\ Det(call.A) # 0) =>
        /\ mem.info = 0
        /\ MatMul(IF call.trans = rocblas_operation_none THEN call.A
                  ELSE Transpose(call.A), mem.B) = call.B
        /\ SubSeq(result.log, 3, Len(result.log)) =
              IF call.trans = rocblas_operation_none
              THEN <<"laswp", "trsm_L", "trsm_U">>
              ELSE <<"trsm_UT", "trsm_LT", "laswp_back">>

\* a transposed 3 by 3 system whose factorization interchanged rows twice,
\* the second interchange not undoing the first, has been solved
C22_Witness ==
    /\ SolveDone /\ Det(call.A) # 0
    /\ call.trans = rocblas_operation_transpose
    /\ call.n > 2
    /\ mem.ipiv[1] > 1 /\ mem.ipiv[2] > 2
    /\ mem.B # call.B
    /\ Transpose(call.A) # call.A

====
